---- MODULE Spec2Model ----
(***************************************************************************)
(* A model of the watermark tool: the rendering core of                    *)
(* image_processor.py (text and image watermarks, compositing, export)     *)
(* and the template store of config_manager.py.                            *)
(*                                                                         *)
(* Conventions.                                                            *)
(*  - A Python float is held as an exact number of hundredths (opacity 0.5 *)
(*    is 50), the unit the opacity slider itself uses; int(x) truncates    *)
(*    toward zero.                                                         *)
(*  - A Python str is a sequence of one-character strings.                 *)
(*  - A bitmap is [mode, w, h, px], px a function from <<x, y>> to a pixel *)
(*    tuple (4 channels for RGBA, 3 for RGB), channels in 0..255.          *)
(*  - A glyph run is a solid block: the face's text box <<l, t, r, b>>     *)
(*    (what textbbox((0,0), ...) returns) is fully covered, so a draw      *)
(*    replaces the covered pixels by the ink.  Anti-aliasing is not        *)
(*    modelled.                                                            *)
(*  - Rotations are multiples of 90 degrees, where PIL's rotate is an      *)
(*    exact transpose and cos/sin are -1, 0 or 1.                          *)
(***************************************************************************)
EXTENDS Integers, Sequences, FiniteSets, TLC

VARIABLES
    image,      \* the caller's source bitmap object (its current content)
    config,     \* the caller's WatermarkConfig object (its current fields)
    env,        \* what is on disk: the font face that loads, the watermark file
    before,     \* the source bitmap and the config as they were when the last call began
    pc,         \* "idle", or the name of the call that returned last
    ret,        \* what the last call returned
    files,      \* files written by export_image: path -> encoded picture
    templates,  \* the template directory: file name -> file content
    tcall,      \* the last template-store call and what it returned
    xcall,      \* the arguments of the last export_image call
    batch,      \* MainWindow: the image list, the export settings and the running batch
    window,     \* MainWindow: images, current_image_index, the list widget and the setting widgets
    history     \* what the callers of the template store saved and did not delete since

vars == <<image, config, env, before, pc, ret, files, templates, tcall, xcall, batch,
          window, history>>

(***************************************************************************)
(* Arithmetic                                                              *)
(***************************************************************************)
Hundredths == 100

Min(a, b) == IF a <= b THEN a ELSE b
Max(a, b) == IF a >= b THEN a ELSE b
Abs(a) == IF a >= 0 THEN a ELSE -a

\* int(n / d) for d > 0: Python's int() truncates toward zero
Trunc(n, d) == IF n >= 0 THEN n \div d ELSE -((-n) \div d)

\* a // 2 on a Python int (floor division)
Half(a) == a \div 2

\* PIL clips every ink channel to 0..255 (CLIP8)
CLIP8(v) == IF v < 0 THEN 0 ELSE IF v > 255 THEN 255 ELSE v

\* PIL's rounding division by 255
DIV255(a) == LET tmp == a + 128 IN ((tmp \div 256) + tmp) \div 256

\* PIL's masked blend of one channel: in1 where mask = 0, in2 where mask = 255
BLEND(mask, in1, in2) == DIV255(in1 * (255 - mask) + in2 * mask)

(***************************************************************************)
(* Bitmaps                                                                 *)
(***************************************************************************)
Points(w, h) == (0 .. w - 1) \X (0 .. h - 1)

\* Image.new(mode, size, color)
ImageNew(mode, w, h, color) ==
    [mode |-> mode, w |-> w, h |-> h, px |-> [p \in Points(w, h) |-> color]]

\* the layer colour every Image.new of the renderers uses
TransparentWhite == <<255, 255, 255, 0>>

\* paste of one RGBA pixel through a mask value: all four channels are blended
PastePixel(dst, src, mask) ==
    [i \in 1 .. 4 |-> BLEND(mask, dst[i], src[i])]

\* dst.paste(src, (bx, by)): no mask, the covered pixels are replaced
PasteCopy(dst, src, bx, by) ==
    [dst EXCEPT !.px = [p \in Points(dst.w, dst.h) |->
        LET u == p[1] - bx
            v == p[2] - by
        IN  IF u >= 0 /\ u < src.w /\ v >= 0 /\ v < src.h
            THEN src.px[<<u, v>>] ELSE dst.px[p]]]

\* dst.paste(src, (bx, by), src): the source's alpha band is the mask; what
\* falls outside dst is clipped
PasteMasked(dst, src, bx, by) ==
    [dst EXCEPT !.px = [p \in Points(dst.w, dst.h) |->
        LET u == p[1] - bx
            v == p[2] - by
        IN  IF u >= 0 /\ u < src.w /\ v >= 0 /\ v < src.h
            THEN PastePixel(dst.px[p], src.px[<<u, v>>], src.px[<<u, v>>][4])
            ELSE dst.px[p]]]

\* one pixel of Image.alpha_composite (PIL's integer form, 7 bits of precision)
CompositePixel(dst, src) ==
    IF src[4] = 0 THEN dst
    ELSE LET blend == dst[4] * (255 - src[4])
             outa255 == src[4] * 255 + blend
             coef1 == (src[4] * 255 * 255 * 128) \div outa255
             coef2 == 255 * 128 - coef1
             Sh(a) == ((a \div 256) + a) \div 256
             Ch(i) == Sh(src[i] * coef1 + dst[i] * coef2 + 128 * 128) \div 128
         IN  <<Ch(1), Ch(2), Ch(3), Sh(outa255 + 128)>>

\* dst.alpha_composite(layer), both of the same size
AlphaComposite(dst, layer) ==
    [dst EXCEPT !.px = [p \in Points(dst.w, dst.h) |->
        CompositePixel(dst.px[p], layer.px[p])]]

\* background = Image.new('RGB', size, white); background.paste(im, mask=alpha)
\* convert('RGB'): the alpha band is dropped, nothing is blended
DropAlpha(p) == <<p[1], p[2], p[3]>>

FlattenPixel(p) == [i \in 1 .. 3 |-> BLEND(p[4], 255, p[i])]

FlattenOnWhite(im) ==
    [mode |-> "RGB", w |-> im.w, h |-> im.h,
     px |-> [p \in Points(im.w, im.h) |-> FlattenPixel(im.px[p])]]

\* Image.rotate(angle, expand=True) for a multiple of 90: a copy or a transpose
Rotate(im, angle) ==
    LET a == angle % 360
    IN  CASE a = 0 -> im
          [] a = 180 ->
                [im EXCEPT !.px = [p \in Points(im.w, im.h) |->
                    im.px[<<im.w - 1 - p[1], im.h - 1 - p[2]>>]]]
          [] a = 90 ->
                [mode |-> im.mode, w |-> im.h, h |-> im.w,
                 px |-> [p \in Points(im.h, im.w) |->
                            im.px[<<im.w - 1 - p[2], p[1]>>]]]
          [] a = 270 ->
                [mode |-> im.mode, w |-> im.h, h |-> im.w,
                 px |-> [p \in Points(im.h, im.w) |->
                            im.px[<<p[2], im.h - 1 - p[1]>>]]]

(***************************************************************************)
(* Strings and colours                                                     *)
(***************************************************************************)
HexDigits == <<"0", "1", "2", "3", "4", "5", "6", "7", "8", "9",
               "A", "B", "C", "D", "E", "F">>

HexLower == <<"0", "1", "2", "3", "4", "5", "6", "7", "8", "9",
              "a", "b", "c", "d", "e", "f">>

IsHex(c) == \E i \in 1 .. 16 : HexDigits[i] = c \/ HexLower[i] = c

HexVal(c) == (CHOOSE i \in 1 .. 16 : HexDigits[i] = c \/ HexLower[i] = c) - 1

TextKind == <<"t", "e", "x", "t">>
ImageKind == <<"i", "m", "a", "g", "e">>

\* str.lstrip('#'): every leading '#' is removed
RECURSIVE LStripHash(_)
LStripHash(s) ==
    IF s # <<>> /\ Head(s) = "#" THEN LStripHash(Tail(s)) ELSE s

\* a value that is not a str (None): its one item is not a character
NoneValue == <<"None">>

IsStr(v) == \A i \in 1 .. Len(v) : v[i] # "None"

\* int(s, 16) on a two-character slice: [ok, v].  Two hex digits, or a sign
\* and a hex digit, or a hex digit with a blank before or after it (int
\* strips blanks); anything else raises ValueError
Int16(s) ==
    IF IsHex(s[1]) /\ IsHex(s[2]) THEN [ok |-> TRUE, v |-> 16 * HexVal(s[1]) + HexVal(s[2])]
    ELSE IF s[1] = "+" /\ IsHex(s[2]) THEN [ok |-> TRUE, v |-> HexVal(s[2])]
    ELSE IF s[1] = "-" /\ IsHex(s[2]) THEN [ok |-> TRUE, v |-> 0 - HexVal(s[2])]
    ELSE IF s[1] = " " /\ IsHex(s[2]) THEN [ok |-> TRUE, v |-> HexVal(s[2])]
    ELSE IF IsHex(s[1]) /\ s[2] = " " THEN [ok |-> TRUE, v |-> HexVal(s[1])]
    ELSE [ok |-> FALSE, v |-> 0]

\* ImageProcessor._parse_color: the three int(.., 16) of the slices of what
\* lstrip('#') leaves when that has 6 characters, black otherwise; whatever
\* is raised (no startswith on a non-str, ValueError of int) gives black
ParseColor(color_str) ==
    IF ~IsStr(color_str) THEN <<0, 0, 0>>
    ELSE IF color_str # <<>> /\ Head(color_str) = "#"
    THEN LET h == LStripHash(color_str)
         IN  IF Len(h) = 6 /\ \A k \in {1, 3, 5} : Int16(<<h[k], h[k + 1]>>).ok
             THEN [k \in 1 .. 3 |-> Int16(<<h[2 * k - 1], h[2 * k]>>).v]
             ELSE <<0, 0, 0>>
    ELSE <<0, 0, 0>>

(***************************************************************************)
(* Calls and objects                                                       *)
(*                                                                         *)
(* A PIL image is a mutable object.  An object reference is [fresh, bm]:   *)
(* fresh says the object was allocated by the call, bm is its content.  A  *)
(* call returns [raised, out, same, src]: whether an exception left the    *)
(* call, the returned bitmap, whether the returned object is the caller's  *)
(* source object itself, and the content of the source object afterwards.  *)
(***************************************************************************)
NoImage == [mode |-> "none", w |-> 0, h |-> 0, px |-> <<>>]

\* the source object's content once the in-place edits of ref are done
SourceAfter(ref, img) == IF ref.fresh THEN img ELSE ref.bm

Returned(ref, src) ==
    [raised |-> FALSE, out |-> ref.bm, same |-> ~ref.fresh, src |-> src]

Raised(img) ==
    [raised |-> TRUE, out |-> NoImage, same |-> FALSE, src |-> img]

\* a handler's "return image" in place of "return image.copy()"
ReturnSourceItself(img) == [fresh |-> FALSE, bm |-> img]

\* image.copy(): a new object with the same pixels
ImageCopy(img) == [fresh |-> TRUE, bm |-> img]

\* compositing straight onto the caller's bitmap
ComposeOnSource(img) == [fresh |-> FALSE, bm |-> img]

\* result = Image.new('RGBA', image.size, (255, 255, 255, 0))
\* result.paste(image, (0, 0))
ComposeTarget(img) ==
    [fresh |-> TRUE,
     bm |-> PasteCopy(ImageNew("RGBA", img.w, img.h, TransparentWhite), img, 0, 0)]

(***************************************************************************)
(* Image watermark                                                         *)
(***************************************************************************)
\* Image.resize((w, h), LANCZOS) for w, h >= 1.  The same size gives a copy;
\* otherwise each output pixel takes the source pixel under it: that is what
\* the LANCZOS weights give on a flat picture, and on other pictures it
\* stands for the resampled value (the filter's mixing of neighbours is not
\* modelled).
Resize(im, w, h) ==
    IF w = im.w /\ h = im.h THEN im
    ELSE [mode |-> im.mode, w |-> w, h |-> h,
          px |-> [p \in Points(w, h) |->
                    im.px[<<(p[1] * im.w) \div w, (p[2] * im.h) \div h>>]]]

\* ImageEnhance.Brightness(alpha).enhance(opacity): Image.blend of black and
\* the band, truncated inside [0, 1] and clipped outside it
EnhanceAlpha(a, opacity) == CLIP8(Trunc(a * opacity, Hundredths))

\* watermark_img.putalpha(enhanced alpha band)
FadeAlpha(im, opacity) ==
    [im EXCEPT !.px = [p \in Points(im.w, im.h) |->
        <<im.px[p][1], im.px[p][2], im.px[p][3], EnhanceAlpha(im.px[p][4], opacity)>>]]

\* int(width * scale), int(height * scale) computed with rounding to nearest
ScaledSizeRounded(w, h, scale) ==
    <<Trunc(2 * w * scale + Hundredths, 2 * Hundredths),
      Trunc(2 * h * scale + Hundredths, 2 * Hundredths)>>

\* lines 477-478: new_width = int(width * image_scale), the same for height
ScaledSize(w, h, scale) ==
    <<Trunc(w * scale, Hundredths), Trunc(h * scale, Hundredths)>>

\* line 479: the watermark picture resized, before fading and rotation
ScaledOverlay(cfg, e) ==
    LET size == ScaledSize(e.wm_img.w, e.wm_img.h, cfg.image_scale)
    IN  Resize(e.wm_img, size[1], size[2])

\* the overlay of add_image_watermark before placement (lines 472-489);
\* only evaluated when the file opens and both scaled dimensions are >= 1
ImageOverlay(cfg, e) ==
    LET sized == ScaledOverlay(cfg, e)
        faded == IF cfg.opacity < Hundredths THEN FadeAlpha(sized, cfg.opacity) ELSE sized
    IN  IF cfg.rotation # 0 THEN Rotate(faded, cfg.rotation \div Hundredths) ELSE faded

\* what the try block of add_image_watermark raises: Image.open on a missing
\* or corrupt file, resize on a dimension below 1
ImageWatermarkFails(cfg, e) ==
    \/ e.wm_state # "ok"
    \/ ScaledSize(e.wm_img.w, e.wm_img.h, cfg.image_scale)[1] < 1
    \/ ScaledSize(e.wm_img.w, e.wm_img.h, cfg.image_scale)[2] < 1

ImageAnchor(img, cfg, overlay) ==
    <<Trunc((img.w - overlay.w) * cfg.position_x, Hundredths),
      Trunc((img.h - overlay.h) * cfg.position_y, Hundredths)>>

\* ImageProcessor.add_image_watermark
AddImageWatermarkCall(img, cfg, e) ==
    IF ImageWatermarkFails(cfg, e)
    THEN Returned(ImageCopy(img), img)
    ELSE LET overlay == ImageOverlay(cfg, e)
             pos == ImageAnchor(img, cfg, overlay)
             target == ComposeTarget(img)
             result == [target EXCEPT !.bm = PasteMasked(target.bm, overlay, pos[1], pos[2])]
         IN  Returned(result, SourceAfter(result, img))

(***************************************************************************)
(* Text watermark: font, measure, anchor, alpha                            *)
(***************************************************************************)
\* the candidate loop over chinese_fonts (lines 119-130): every listed path
\* that exists and loads replaces font; the loop stops at the first one
\* that also passes check_chinese_support_fonttools
RECURSIVE SystemFontLoop(_, _)
SystemFontLoop(cands, font) ==
    IF cands = <<>> THEN font
    ELSE LET c == Head(cands)
         IN  IF c.exists /\ c.loads
             THEN IF c.chinese THEN "system" ELSE SystemFontLoop(Tail(cands), "system")
             ELSE SystemFontLoop(Tail(cands), font)

\* lines 74-139: the face add_text_watermark ends up with; "none" is font = None
ResolveFont(cfg, e) ==
    LET first == IF cfg.font_family # <<>> /\ e.font_loads THEN "custom"
                 ELSE IF e.default_loads THEN "default" ELSE "none"
        second == IF first = "none" THEN SystemFontLoop(e.system_fonts, "none") ELSE first
    IN  IF second = "none" /\ e.default_loads THEN "default" ELSE second

\* lines 141-160: the measured text size; without a face it is estimated
TextSize(cfg, e) ==
    IF ResolveFont(cfg, e) # "none"
    THEN <<e.box[3] - e.box[1], e.box[4] - e.box[2]>>
    ELSE <<Len(cfg.text_content) * 12, 20>>

\* lines 162-164
TextAnchor(img, cfg, e) ==
    <<Trunc((img.w - TextSize(cfg, e)[1]) * cfg.position_x, Hundredths),
      Trunc((img.h - TextSize(cfg, e)[2]) * cfg.position_y, Hundredths)>>

\* line 168: the alpha of color_with_opacity, int(255 * opacity)
GlyphAlpha(cfg) == Trunc(255 * cfg.opacity, Hundredths)

\* lines 205-206 and 290-291: min(255, int(255 * opacity * 1.05 + 80))
ItalicAlpha(cfg) ==
    Min(255, Trunc(255 * cfg.opacity * 105 + 80 * Hundredths * Hundredths,
                   Hundredths * Hundredths))

(***************************************************************************)
(* Text watermark: the draws                                               *)
(*                                                                         *)
(* A draw is [role, dx, dy, ink]: one draw.text of the glyph run at        *)
(* (origin + (dx, dy)) with fill ink, the alpha as the code passes it.     *)
(***************************************************************************)
Draw(role, dx, dy, rgb, a) ==
    [role |-> role, dx |-> dx, dy |-> dy, ink |-> <<rgb[1], rgb[2], rgb[3], a>>]

\* for x_offset in range(-w, w + 1): for y_offset in range(-w, w + 1)
SquareOffsets(w) ==
    IF w < 0 THEN <<>>
    ELSE [k \in 1 .. (2 * w + 1) * (2 * w + 1) |->
            <<((k - 1) \div (2 * w + 1)) - w, ((k - 1) % (2 * w + 1)) - w>>]

StrokeDraws(cfg, offsets) ==
    [k \in 1 .. Len(offsets) |->
        Draw("stroke", offsets[k][1], offsets[k][2], ParseColor(cfg.stroke_color), 255)]

\* lines 171-183: every offset of the square but (0, 0)
StrokeSquare(cfg) ==
    IF cfg.stroke_enabled
    THEN StrokeDraws(cfg, SelectSeq(SquareOffsets(cfg.stroke_width),
                                    LAMBDA o : o[1] # 0 \/ o[2] # 0))
    ELSE <<>>

\* a stroke loop whose test lets the whole square through
StrokeFilled(cfg) ==
    IF cfg.stroke_enabled
    THEN StrokeDraws(cfg, SquareOffsets(cfg.stroke_width))
    ELSE <<>>

\* lines 299-311, 352-364, 412-424: the offsets with |dx| = w or |dy| = w
StrokePerimeter(cfg) ==
    IF cfg.stroke_enabled
    THEN StrokeDraws(cfg, SelectSeq(SquareOffsets(cfg.stroke_width),
                LAMBDA o : Abs(o[1]) = cfg.stroke_width \/ Abs(o[2]) = cfg.stroke_width))
    ELSE <<>>

\* lines 186-193, 314-320, 367-375, 427-434
ShadowDraws(cfg) ==
    IF cfg.shadow_enabled
    THEN <<Draw("shadow", cfg.shadow_offset_x, cfg.shadow_offset_y,
                ParseColor(cfg.shadow_color), 255)>>
    ELSE <<>>

BoldDraws(cfg, offsets, a) ==
    IF cfg.font_bold
    THEN [k \in 1 .. Len(offsets) |->
            Draw("bold", offsets[k][1], offsets[k][2], ParseColor(cfg.font_color), a)]
    ELSE <<>>

\* lines 213-220 and 242-249: the first pass
BoldOffsetsFirst ==
    <<<<-2, -2>>, <<2, -2>>, <<-2, 2>>, <<2, 2>>, <<-1, 0>>, <<1, 0>>, <<0, -1>>, <<0, 1>>>>

\* lines 325, 379, 438: directions
BoldDirections ==
    <<<<-1, -1>>, <<1, -1>>, <<-1, 1>>, <<1, 1>>, <<-1, 0>>, <<1, 0>>, <<0, -1>>, <<0, 1>>>>

MainDraw(cfg, a) == <<Draw("main", 0, 0, ParseColor(cfg.font_color), a)>>

\* the branch of add_text_watermark that produces the composited layer
RenderPath(cfg, e) ==
    LET font == ResolveFont(cfg, e)
    IN  IF cfg.rotation # 0 /\ font # "none"
        THEN IF cfg.font_italic THEN "rotated_italic" ELSE "rotated"
        ELSE IF cfg.stroke_enabled /\ font # "none" THEN "redrawn"
        ELSE IF font # "none" /\ cfg.font_italic THEN "italic"
        ELSE "direct"

\* the draws made straight onto the canvas-sized layer that is composited
\* (lines 170-193, 238-255 for the first pass, 412-453 for the redrawn one)
LayerDraws(cfg, e) ==
    LET path == RenderPath(cfg, e)
        font == ResolveFont(cfg, e)
    IN  CASE path = "redrawn" ->
                StrokePerimeter(cfg) \o ShadowDraws(cfg)
                    \o BoldDraws(cfg, BoldDirections, GlyphAlpha(cfg))
                    \o MainDraw(cfg, GlyphAlpha(cfg))
          [] path = "direct" ->
                StrokeSquare(cfg) \o ShadowDraws(cfg)
                    \o (IF font # "none"
                        THEN BoldDraws(cfg, BoldOffsetsFirst, GlyphAlpha(cfg))
                        ELSE <<>>)
                    \o MainDraw(cfg, GlyphAlpha(cfg))
          [] path = "italic" -> StrokeSquare(cfg) \o ShadowDraws(cfg)
          [] OTHER -> <<>>

\* a temporary image on which the primary glyph is drawn first
TempDrawsGlyphFirst(cfg, e) ==
    LET path == RenderPath(cfg, e)
        a == IF path = "rotated" THEN GlyphAlpha(cfg) ELSE ItalicAlpha(cfg)
    IN  CASE path = "italic" ->
                MainDraw(cfg, a) \o BoldDraws(cfg, BoldOffsetsFirst, a)
          [] path \in {"rotated", "rotated_italic"} ->
                MainDraw(cfg, a) \o StrokePerimeter(cfg) \o ShadowDraws(cfg)
                    \o BoldDraws(cfg, BoldDirections, a)
          [] OTHER -> <<>>

\* the draws made into a temporary image: the italic one (lines 210-223,
\* 298-337) or the rotation one (lines 351-391)
TempDraws(cfg, e) ==
    LET path == RenderPath(cfg, e)
    IN  CASE path = "italic" ->
                BoldDraws(cfg, BoldOffsetsFirst, ItalicAlpha(cfg))
                    \o MainDraw(cfg, ItalicAlpha(cfg))
          [] path = "rotated_italic" ->
                StrokePerimeter(cfg) \o ShadowDraws(cfg)
                    \o BoldDraws(cfg, BoldDirections, ItalicAlpha(cfg))
                    \o MainDraw(cfg, ItalicAlpha(cfg))
          [] path = "rotated" ->
                StrokePerimeter(cfg) \o ShadowDraws(cfg)
                    \o BoldDraws(cfg, BoldDirections, GlyphAlpha(cfg))
                    \o MainDraw(cfg, GlyphAlpha(cfg))
          [] OTHER -> <<>>

(***************************************************************************)
(* Text watermark: the pixels                                              *)
(***************************************************************************)
\* the glyph block of draw d, drawn from origin o, covers pixel (x, y)
Covers(d, o, box, x, y) ==
    /\ x >= o[1] + d.dx + box[1]
    /\ x < o[1] + d.dx + box[3]
    /\ y >= o[2] + d.dy + box[2]
    /\ y < o[2] + d.dy + box[4]

\* the pixel at (x, y) of a transparent-white image after the draws, in order
DrawnPixel(draws, o, box, x, y) ==
    LET hits == {k \in 1 .. Len(draws) : Covers(draws[k], o, box, x, y)}
    IN  IF hits = {} THEN TransparentWhite
        ELSE LET last == CHOOSE k \in hits : \A j \in hits : j <= k
             IN  [i \in 1 .. 4 |-> CLIP8(draws[last].ink[i])]

\* transform(size, AffineTransform((1, 15/45, 0, 0, 1, 0))): output pixel
\* (u, v) takes the source pixel nearest to (u + v/3, v)
ShearShift(v) == (v + 2) \div 3

\* pixel (u, v) of the sheared copy of a sw x sh image drawn from origin o;
\* where the source falls outside, the pixel stays zero
ShearedPixel(draws, o, box, sw, sh, u, v) ==
    IF u >= 0 /\ v >= 0 /\ v < sh /\ u + ShearShift(v) < sw
    THEN DrawnPixel(draws, o, box, u + ShearShift(v), v)
    ELSE <<0, 0, 0, 0>>

\* math.cos / math.sin of math.radians(abs(rotation)), rotation a multiple of 90
CosOf(rotation) ==
    LET d == (Abs(rotation) \div Hundredths) % 360
    IN  CASE d = 0 -> 1 [] d = 90 -> 0 [] d = 180 -> -1 [] d = 270 -> 0

SinOf(rotation) ==
    LET d == (Abs(rotation) \div Hundredths) % 360
    IN  CASE d = 0 -> 0 [] d = 90 -> 1 [] d = 180 -> 0 [] d = 270 -> -1

\* the margin added to both temporary dimensions (lines 270-271)
RotationMargin == 100

\* lines 268-272: the side of the square temporary image
TempSide(cfg, e) ==
    LET tw == TextSize(cfg, e)[1]
        th == TextSize(cfg, e)[2]
        temp_width == (tw * CosOf(cfg.rotation) + th * SinOf(cfg.rotation)) + RotationMargin
        temp_height == (th * CosOf(cfg.rotation) + tw * SinOf(cfg.rotation)) + RotationMargin
    IN  Max(temp_width, temp_height)

\* what a call of add_text_watermark works with once the face is measured:
\* the branch taken, the anchor, the text size and box, the side of the
\* rotation image, and the draws of each surface
RenderPlan(img, cfg, e) ==
    [path |-> RenderPath(cfg, e),
     pos |-> TextAnchor(img, cfg, e),
     tw |-> TextSize(cfg, e)[1],
     th |-> TextSize(cfg, e)[2],
     box |-> e.box,
     italic |-> cfg.font_italic,
     turn |-> (cfg.rotation \div Hundredths) % 360,
     side |-> TempSide(cfg, e),
     layer_draws |-> LayerDraws(cfg, e),
     temp_draws |-> TempDraws(cfg, e)]

\* the image the italic text is drawn on before the shear: its size, the
\* origin the text is drawn from, and the corner it is pasted at (on the layer,
\* lines 200-235; on the temporary image of the rotation, lines 285-348)
ItalicLayout(r) ==
    IF r.path = "italic"
    THEN [size |-> <<r.tw + 80, r.th + 40>>,
          origin |-> <<40, 20>>,
          paste |-> <<r.pos[1] - 20, r.pos[2] - 10>>]
    ELSE LET italic_temp_size == <<r.tw + 50, r.th + 50>>
             italic_center_x == Half(italic_temp_size[1])
             italic_center_y == Half(italic_temp_size[2])
             temp_center == Half(r.side)
         IN  [size |-> italic_temp_size,
              origin |-> <<italic_center_x - Half(r.tw), italic_center_y - Half(r.th)>>,
              paste |-> <<temp_center - Half(italic_temp_size[1]),
                          temp_center - Half(italic_temp_size[2])>>]

\* the temporary image of the rotated path, before rotation (lines 275-391)
TempPixel(r, u, v) ==
    LET temp_center == Half(r.side)
    IN  IF r.italic
        THEN LET it == ItalicLayout(r)
                 iw == it.size[1]
                 ih == it.size[2]
                 o == it.origin
                 a == u - it.paste[1]
                 b == v - it.paste[2]
             IN  IF a >= 0 /\ a < iw /\ b >= 0 /\ b < ih
                 THEN LET ip == ShearedPixel(r.temp_draws, o, r.box, iw, ih, a, b)
                      IN  PastePixel(TransparentWhite, ip, ip[4])
                 ELSE TransparentWhite
        ELSE DrawnPixel(r.temp_draws,
                        <<temp_center - Half(r.tw), temp_center - Half(r.th)>>,
                        r.box, u, v)

\* rotated_img = temp_img.rotate(rotation, expand=True): pixel (u, v)
RotatedPixel(r, u, v) ==
    CASE r.turn = 0 -> TempPixel(r, u, v)
      [] r.turn = 180 -> TempPixel(r, r.side - 1 - u, r.side - 1 - v)
      [] r.turn = 90 -> TempPixel(r, r.side - 1 - v, u)
      [] r.turn = 270 -> TempPixel(r, v, r.side - 1 - u)

\* lines 260-261 and 397-398: the corner the rotated image is pasted at, its
\* centre on the text centre; the rotated square keeps the side of the
\* temporary image
RotatedPaste(r) ==
    LET text_center_x == r.pos[1] + Half(r.tw)
        text_center_y == r.pos[2] + Half(r.th)
    IN  <<text_center_x - Half(r.side), text_center_y - Half(r.side)>>

\* pixel (x, y) of the watermark layer that is composited (lines 196-453)
LayerPixel(r, x, y) ==
    CASE r.path \in {"rotated", "rotated_italic"} ->
            LET u == x - RotatedPaste(r)[1]
                v == y - RotatedPaste(r)[2]
            IN  IF u >= 0 /\ u < r.side /\ v >= 0 /\ v < r.side
                THEN LET rp == RotatedPixel(r, u, v)
                     IN  PastePixel(TransparentWhite, rp, rp[4])
                ELSE TransparentWhite
      [] r.path = "italic" ->
            LET under == DrawnPixel(r.layer_draws, r.pos, r.box, x, y)
                it == ItalicLayout(r)
                u == x - it.paste[1]
                v == y - it.paste[2]
            IN  IF u >= 0 /\ u < it.size[1] /\ v >= 0 /\ v < it.size[2]
                THEN LET ip == ShearedPixel(r.temp_draws, it.origin, r.box,
                                            it.size[1], it.size[2], u, v)
                     IN  PastePixel(under, ip, ip[4])
                ELSE under
      [] OTHER -> DrawnPixel(r.layer_draws, r.pos, r.box, x, y)

WatermarkLayer(img, cfg, e) ==
    LET r == RenderPlan(img, cfg, e)
    IN  [mode |-> "RGBA", w |-> img.w, h |-> img.h,
         px |-> [p \in Points(img.w, img.h) |-> LayerPixel(r, p[1], p[2])]]

\* what add_text_watermark raises: Image.new rejects a negative size (line
\* 275), and draw.text without a face loads the default face itself
TextWatermarkRaises(cfg, e) ==
    \/ RenderPath(cfg, e) \in {"rotated", "rotated_italic"} /\ TempSide(cfg, e) < 0
    \/ ResolveFont(cfg, e) = "none" /\ ~e.default_loads

\* lines 455-466: compose, then flatten onto white when the result is RGBA
\* (it always is)
ComposeText(img, layer) ==
    LET target == ComposeTarget(img)
        result == [target EXCEPT !.bm = AlphaComposite(target.bm, layer)]
    IN  IF result.bm.mode = "RGBA"
        THEN Returned([fresh |-> TRUE, bm |-> FlattenOnWhite(result.bm)],
                      SourceAfter(result, img))
        ELSE Returned(result, SourceAfter(result, img))

\* ImageProcessor.add_text_watermark
AddTextWatermarkCall(img, cfg, e) ==
    IF TextWatermarkRaises(cfg, e) THEN Raised(img)
    ELSE ComposeText(img, WatermarkLayer(img, cfg, e))

\* ImageProcessor.process_image
ProcessImageCall(img, cfg, e) ==
    IF cfg.watermark_type = TextKind
    THEN AddTextWatermarkCall(img, cfg, e)
    ELSE IF cfg.watermark_type = ImageKind /\ cfg.image_path # <<>>
    THEN AddImageWatermarkCall(img, cfg, e)
    ELSE Returned(ImageCopy(img), img)

(***************************************************************************)
(* Export                                                                  *)
(***************************************************************************)
\* str.upper() on the format tags in use
Upper(fmt) == IF fmt = <<"j", "p", "e", "g">> THEN <<"J", "P", "E", "G">> ELSE fmt

\* export_img.convert('RGBA') of an RGB bitmap: alpha 255 is added
ToRGBA(im) ==
    IF im.mode = "RGBA" THEN im
    ELSE [mode |-> "RGBA", w |-> im.w, h |-> im.h,
          px |-> [p \in Points(im.w, im.h) |->
                    <<im.px[p][1], im.px[p][2], im.px[p][3], 255>>]]

\* lines 518-533: the picture handed to save() and the encoder used; the
\* encoder's own loss is not modelled
ExportPicture(im, file_format, resize) ==
    LET sized == IF resize # <<>> THEN Resize(im, resize[1], resize[2]) ELSE im
    IN  IF Upper(file_format) = <<"J", "P", "E", "G">>
        THEN [format |-> "JPEG",
              bm |-> IF sized.mode = "RGBA" THEN FlattenOnWhite(sized) ELSE sized]
        ELSE [format |-> "PNG", bm |-> ToRGBA(sized)]

(***************************************************************************)
(* The rendering core as a state machine: a caller holds a source bitmap   *)
(* and a config, calls a renderer, and may export what came back.          *)
(***************************************************************************)
\* WatermarkConfig() (lines 14-47).  text_content stands for the default text,
\* four CJK characters, with four ASCII ones: the module is kept in ASCII.
DefaultConfig ==
    [watermark_type |-> TextKind,
     text_content |-> <<"T", "E", "S", "T">>,
     font_family |-> <<"A", "r", "i", "a", "l">>,
     font_size |-> 24,
     font_bold |-> FALSE,
     font_italic |-> FALSE,
     font_color |-> <<"#", "0", "0", "0", "0", "0", "0">>,
     image_path |-> <<>>,
     image_scale |-> 100,
     opacity |-> 50,
     position_x |-> 50,
     position_y |-> 50,
     rotation |-> 0,
     shadow_enabled |-> FALSE,
     shadow_offset_x |-> 2,
     shadow_offset_y |-> 2,
     shadow_blur |-> 3,
     shadow_color |-> <<"#", "0", "0", "0", "0", "0", "0">>,
     stroke_enabled |-> FALSE,
     stroke_width |-> 1,
     stroke_color |-> <<"#", "F", "F", "F", "F", "F", "F">>]

\* bounds of the sampled inputs
CanvasW == 4
CanvasH == 3
MaxStrokeWidth == 2

Opaque == <<200, 100, 50, 255>>
Faint == <<10, 20, 30, 128>>
Clear == <<0, 0, 0, 0>>

SourceImages ==
    {ImageNew("RGBA", CanvasW, CanvasH, Opaque),
     [mode |-> "RGBA", w |-> CanvasW, h |-> CanvasH,
      px |-> [p \in Points(CanvasW, CanvasH) |->
                CASE (p[1] + p[2]) % 3 = 0 -> Opaque
                  [] (p[1] + p[2]) % 3 = 1 -> Faint
                  [] OTHER -> Clear]]}

Opacities == {-10, 0, 50, 100, 150}
Positions == {<<0, 0>>, <<50, 50>>, <<100, 100>>, <<150, -50>>}
Rotations == {-36000, -9000, 0, 9000, 18000, 27000, 36000}
Scales == {-100, 0, 30, 100, 150, 200}
FontColors == {<<"#", "F", "F", "0", "0", "0", "0">>, <<"r", "e", "d">>}

\* the text boxes a face can give: tight, offset from the draw origin as
\* textbbox reports for real faces, and larger than the canvas
TextBoxes == {<<0, 0, 2, 1>>, <<1, 2, 3, 4>>, <<0, 30, 220, 180>>}

WatermarkPicture == ImageNew("RGBA", 2, 1, <<0, 0, 255, 128>>)

FontEnvs ==
    {[font_loads |-> TRUE, box |-> <<0, 0, 2, 1>>],
     [font_loads |-> TRUE, box |-> <<0, 30, 220, 180>>],
     [font_loads |-> FALSE, box |-> <<1, 2, 3, 4>>]}

TextEnvs ==
    {[font_loads |-> f.font_loads, default_loads |-> TRUE, system_fonts |-> <<>>,
      box |-> f.box, wm_state |-> "missing", wm_img |-> WatermarkPicture] :
        f \in FontEnvs}

ImageEnvs ==
    {[font_loads |-> TRUE, default_loads |-> TRUE, system_fonts |-> <<>>,
      box |-> <<0, 0, 2, 1>>, wm_state |-> st, wm_img |-> WatermarkPicture] :
        st \in {"ok", "missing", "corrupt"}}

\* no face at all: the configured path, the system candidates and the
\* built-in default all fail to load
NoFaceEnvs ==
    {[font_loads |-> FALSE, default_loads |-> FALSE, system_fonts |-> <<>>,
      box |-> <<0, 0, 2, 1>>, wm_state |-> "missing", wm_img |-> WatermarkPicture]}

\* every combination of the effects, the turns and the opacities, centred
EffectConfigs ==
    {[DefaultConfig EXCEPT
        !.opacity = o, !.rotation = r,
        !.font_bold = fx[1], !.font_italic = fx[2],
        !.shadow_enabled = fx[3], !.stroke_enabled = fx[4], !.stroke_width = sw] :
        o \in Opacities, r \in Rotations,
        fx \in {f \in BOOLEAN \X BOOLEAN \X BOOLEAN \X BOOLEAN : f[4]},
        sw \in 1 .. MaxStrokeWidth}
    \cup
    {[DefaultConfig EXCEPT
        !.opacity = o, !.rotation = r,
        !.font_bold = fx[1], !.font_italic = fx[2], !.shadow_enabled = fx[3]] :
        o \in Opacities, r \in Rotations, fx \in BOOLEAN \X BOOLEAN \X BOOLEAN}

\* every anchor, upright and turned, plain and italic, with both colours
PlacedConfigs ==
    {[DefaultConfig EXCEPT
        !.position_x = p[1], !.position_y = p[2], !.rotation = r,
        !.font_italic = i, !.font_color = c] :
        p \in Positions, r \in {0, 9000, 36000}, i \in BOOLEAN, c \in FontColors}

TextConfigs == EffectConfigs \cup PlacedConfigs

ImageConfigs ==
    {[DefaultConfig EXCEPT
        !.watermark_type = ImageKind, !.image_path = <<"w", ".", "p", "n", "g">>,
        !.opacity = o, !.position_x = p[1], !.position_y = p[2], !.rotation = r,
        !.image_scale = s] :
        o \in Opacities, p \in Positions, r \in {-9000, 0, 9000, 36000}, s \in Scales}

\* every value of the opacity slider, on the default text config
SliderConfigs == {[DefaultConfig EXCEPT !.opacity = o] : o \in 0 .. Hundredths}

\* a missing or corrupt watermark file, whatever the rest of the config
BrokenFileEnvs == {e \in ImageEnvs : e.wm_state # "ok"}

BrokenFileConfigs == {c \in ImageConfigs : c.position_x = 50 /\ c.rotation = 0}

\* no image listed, no batch started
NoBatch == [state |-> "none"]

\* no export_image call yet
NoExport == [file_format |-> <<>>, resize |-> <<>>]

\* no window is open; no template was saved
NoWindow == [state |-> "none"]

NoHistory == [state |-> "none"]

NoReturn == [raised |-> FALSE, out |-> NoImage, same |-> FALSE, src |-> NoImage]

RenderInit ==
    /\ image \in SourceImages
    /\ \/ config \in TextConfigs /\ env \in TextEnvs
       \/ /\ config \in SliderConfigs
          /\ env \in {e \in TextEnvs : e.font_loads /\ e.box = <<0, 0, 2, 1>>}
          /\ image = ImageNew("RGBA", CanvasW, CanvasH, Opaque)
       \/ /\ config \in {c \in EffectConfigs : c.opacity = 50 /\ ~c.font_bold /\ ~c.shadow_enabled}
          /\ env \in NoFaceEnvs
       \/ config \in ImageConfigs /\ env \in ImageEnvs /\ env.wm_state = "ok"
       \/ config \in BrokenFileConfigs /\ env \in BrokenFileEnvs
    /\ before = [image |-> image, config |-> config]
    /\ pc = "idle"
    /\ ret = NoReturn
    /\ files = <<>>
    /\ templates = <<>>
    /\ tcall = <<>>
    /\ xcall = NoExport
    /\ batch = NoBatch
    /\ window = NoWindow
    /\ history = NoHistory

\* the caller calls process_image(image, config)
ProcessImage ==
    /\ pc = "idle"
    /\ ret' = ProcessImageCall(image, config, env)
    /\ image' = ret'.src
    /\ before' = [image |-> image, config |-> config]
    /\ pc' = "process_image"
    /\ UNCHANGED <<config, env, files, templates, tcall, xcall, batch, window, history>>

\* the caller calls add_text_watermark(image, config)
AddTextWatermark ==
    /\ pc = "idle"
    /\ ret' = AddTextWatermarkCall(image, config, env)
    /\ image' = ret'.src
    /\ before' = [image |-> image, config |-> config]
    /\ pc' = "add_text_watermark"
    /\ UNCHANGED <<config, env, files, templates, tcall, xcall, batch, window, history>>

\* the caller calls add_image_watermark(image, config.image_path, config)
AddImageWatermark ==
    /\ pc = "idle"
    /\ ret' = AddImageWatermarkCall(image, config, env)
    /\ image' = ret'.src
    /\ before' = [image |-> image, config |-> config]
    /\ pc' = "add_image_watermark"
    /\ UNCHANGED <<config, env, files, templates, tcall, xcall, batch, window, history>>

ExportFormats == {<<"P", "N", "G">>, <<"J", "P", "E", "G">>, <<"j", "p", "e", "g">>,
                  <<"B", "M", "P">>}
ExportResizes == {<<>>, <<2, 2>>}
OutputPath == <<"o", "u", "t">>

\* the caller calls export_image(processed, path, format, quality, resize) on
\* what process_image returned; save() may fail (disk full, no permission)
ExportImage ==
    /\ pc = "process_image"
    /\ ~ret.raised
    /\ \E fmt \in ExportFormats, rs \in ExportResizes, saved \in BOOLEAN :
        /\ files' = IF saved
                    THEN [f \in DOMAIN files \cup {OutputPath} |->
                            IF f = OutputPath THEN ExportPicture(ret.out, fmt, rs)
                            ELSE files[f]]
                    ELSE files
        /\ pc' = IF saved THEN "export_image" ELSE "export_failed"
        /\ xcall' = [file_format |-> fmt, resize |-> rs]
    /\ UNCHANGED <<image, config, env, before, ret, templates, tcall, batch, window, history>>

RenderNext == ProcessImage \/ AddTextWatermark \/ AddImageWatermark \/ ExportImage

Spec == RenderInit /\ [][RenderNext]_vars

(***************************************************************************)
(* Template store (config_manager.py)                                      *)
(*                                                                         *)
(* A template file holds one JSON object: here a function from its keys to *)
(* the characters json.dump writes for each value.  Layout (braces,        *)
(* commas, indentation) is not modelled.                                   *)
(***************************************************************************)
\* the Python type each WatermarkConfig field is declared with (lines 18-47)
FieldType(k) ==
    CASE k \in {"font_bold", "font_italic", "shadow_enabled", "stroke_enabled"} -> "bool"
      [] k \in {"font_size", "shadow_offset_x", "shadow_offset_y", "shadow_blur",
                "stroke_width"} -> "int"
      [] k \in {"image_scale", "opacity", "position_x", "position_y", "rotation"} -> "float"
      [] OTHER -> "str"

DecimalDigits == <<"0", "1", "2", "3", "4", "5", "6", "7", "8", "9">>

RECURSIVE Digits(_)
Digits(n) ==
    IF n < 10 THEN <<DecimalDigits[n + 1]>>
    ELSE Digits(n \div 10) \o <<DecimalDigits[(n % 10) + 1]>>

\* json.dump of an int
JsonInt(n) == IF n < 0 THEN <<"-">> \o Digits(-n) ELSE Digits(n)

\* a float written as an int: the fraction is lost
JsonFloatTruncated(h) == JsonInt(Trunc(h, Hundredths))

\* json.dump of a float (float.__repr__): always a fraction part, the shortest
\* that reads back as the same value
JsonFloat(h) ==
    LET m == Abs(h)
        frac == m % Hundredths
    IN  (IF h < 0 THEN <<"-">> ELSE <<>>)
        \o Digits(m \div Hundredths) \o <<".">>
        \o (IF frac % 10 = 0 THEN Digits(frac \div 10)
            ELSE <<DecimalDigits[(frac \div 10) + 1], DecimalDigits[(frac % 10) + 1]>>)

\* json.dump of a str with ensure_ascii=False: quotes around it, a backslash
\* before every quote and backslash
RECURSIVE Escape(_)
Escape(str) ==
    IF str = <<>> THEN <<>>
    ELSE IF Head(str) \in {"\"", "\\"} THEN <<"\\", Head(str)>> \o Escape(Tail(str))
    ELSE <<Head(str)>> \o Escape(Tail(str))

JsonStr(str) == <<"\"">> \o Escape(str) \o <<"\"">>

JsonBool(b) == IF b THEN <<"t", "r", "u", "e">> ELSE <<"f", "a", "l", "s", "e">>

JsonValue(type, v) ==
    CASE type = "bool" -> JsonBool(v)
      [] type = "int" -> JsonInt(v)
      [] type = "float" -> JsonFloat(v)
      [] OTHER -> JsonStr(v)

\* data = asdict(config); json.dump(data, f, ensure_ascii=False, indent=2)
JsonDump(cfg) == [k \in DOMAIN cfg |-> JsonValue(FieldType(k), cfg[k])]

DigitVal(c) == (CHOOSE i \in 1 .. 10 : DecimalDigits[i] = c) - 1
IsDigit(c) == \E i \in 1 .. 10 : DecimalDigits[i] = c

RECURSIVE Number(_)
Number(ds) == IF ds = <<>> THEN 0 ELSE 10 * Number(SubSeq(ds, 1, Len(ds) - 1)) + DigitVal(ds[Len(ds)])

\* the body of a JSON string: [ok, str]; a bare quote or a backslash with
\* nothing after it is a syntax error
RECURSIVE Unescape(_)
Unescape(body) ==
    IF body = <<>> THEN [ok |-> TRUE, str |-> <<>>]
    ELSE IF Head(body) = "\\"
    THEN IF Len(body) < 2 THEN [ok |-> FALSE, str |-> <<>>]
         ELSE LET r == Unescape(SubSeq(body, 3, Len(body)))
              IN  [ok |-> r.ok, str |-> <<body[2]>> \o r.str]
    ELSE IF Head(body) = "\"" THEN [ok |-> FALSE, str |-> <<>>]
    ELSE LET r == Unescape(Tail(body))
         IN  [ok |-> r.ok, str |-> <<Head(body)>> \o r.str]

\* json.load of one value: [ok, type, v]; a number with a fraction part is a
\* float (in hundredths), one without is an int
JsonParse(txt) ==
    LET bad == [ok |-> FALSE, type |-> "none", v |-> 0]
    IN  IF txt = <<>> THEN bad
        ELSE IF txt = JsonBool(TRUE) THEN [ok |-> TRUE, type |-> "bool", v |-> TRUE]
        ELSE IF txt = JsonBool(FALSE) THEN [ok |-> TRUE, type |-> "bool", v |-> FALSE]
        ELSE IF Head(txt) = "\""
        THEN IF Len(txt) < 2 \/ txt[Len(txt)] # "\"" THEN bad
             ELSE LET r == Unescape(SubSeq(txt, 2, Len(txt) - 1))
                  IN  IF r.ok THEN [ok |-> TRUE, type |-> "str", v |-> r.str] ELSE bad
        ELSE LET neg == Head(txt) = "-"
                 mag == IF neg THEN Tail(txt) ELSE txt
                 dots == {i \in 1 .. Len(mag) : mag[i] = "."}
                 sign == IF neg THEN -1 ELSE 1
             IN  IF mag = <<>> \/ \E i \in 1 .. Len(mag) : ~IsDigit(mag[i]) /\ mag[i] # "."
                 THEN bad
                 ELSE IF dots = {}
                 THEN [ok |-> TRUE, type |-> "int", v |-> sign * Number(mag)]
                 ELSE LET d == CHOOSE i \in dots : TRUE
                          whole == SubSeq(mag, 1, d - 1)
                          frac == SubSeq(mag, d + 1, Len(mag))
                      IN  IF Cardinality(dots) # 1 \/ whole = <<>> \/ frac = <<>>
                             \/ Len(frac) > 2
                          THEN bad
                          ELSE [ok |-> TRUE, type |-> "float",
                                v |-> sign * (Number(whole) * Hundredths
                                    + (IF Len(frac) = 1 THEN 10 * Number(frac)
                                       ELSE Number(frac)))]

\* the value setattr stores, in the unit the model holds the field in: an int
\* read into a float field is the same number
FieldValue(k, parsed) ==
    IF FieldType(k) = "float" /\ parsed.type = "int" THEN parsed.v * Hundredths
    ELSE parsed.v

\* a path below the template directory without its leading './' parts
RECURSIVE StripDot(_)
StripDot(path) ==
    IF Len(path) >= 2 /\ path[1] = "." /\ path[2] = "/"
    THEN StripDot(SubSeq(path, 3, Len(path)))
    ELSE path

HasSeparator(path) == \E i \in 1 .. Len(path) : path[i] = "/"

\* os.path.join(template_dir, f"{name}.json"), as the file it names: the
\* path relative to the template directory
TemplateFile(name) == StripDot(name \o <<".", "j", "s", "o", "n">>)

\* open(template_file, 'w') succeeds: the file lies in a directory that
\* exists, the template directory itself or its parent, the configuration
\* directory ('a/b.json' would lie in a directory that does not exist)
CanCreate(name) ==
    LET path == StripDot(name)
    IN  \/ ~HasSeparator(path)
        \/ /\ Len(path) >= 3
           /\ SubSeq(path, 1, 3) = <<".", ".", "/">>
           /\ ~HasSeparator(SubSeq(path, 4, Len(path)))

\* ConfigManager.save_template: [ok, store]
SaveTemplateCall(store, name, cfg) ==
    IF CanCreate(name)
    THEN [ok |-> TRUE,
          store |-> [f \in DOMAIN store \cup {TemplateFile(name)} |->
                        IF f = TemplateFile(name) THEN JsonDump(cfg) ELSE store[f]]]
    ELSE [ok |-> FALSE, store |-> store]

\* attributes a WatermarkConfig instance has besides its fields (through its
\* class), among the keys the sampled files use
ObjectAttributes == {"__doc__", "__class__"}

\* hasattr(config, key)
HasAttr(k) == k \in DOMAIN DefaultConfig \/ k \in ObjectAttributes

\* setattr(config, key, value) raises: __class__ only takes a class
SetAttrRaises(k) == k = "__class__"

\* ConfigManager.load_template: [ok, cfg, extra]; ok is FALSE for None, extra
\* is the set of attributes the returned object has besides its fields
LoadTemplateCall(store, name) ==
    LET none == [ok |-> FALSE, cfg |-> DefaultConfig, extra |-> {}]
    IN  IF TemplateFile(name) \in DOMAIN store
        THEN LET data == store[TemplateFile(name)]
                 set == {k \in DOMAIN data : HasAttr(k)}
             IN  IF (\A k \in DOMAIN data : JsonParse(data[k]).ok)
                        /\ \A k \in set : ~SetAttrRaises(k)
                 THEN [ok |-> TRUE,
                       cfg |-> [k \in DOMAIN DefaultConfig |->
                                  IF k \in set
                                  THEN FieldValue(k, JsonParse(data[k]))
                                  ELSE DefaultConfig[k]],
                       extra |-> set \ DOMAIN DefaultConfig]
                 ELSE none
        ELSE none

\* ConfigManager.delete_template: [ok, store]
DeleteTemplateCall(store, name) ==
    IF TemplateFile(name) \in DOMAIN store
    THEN [ok |-> TRUE,
          store |-> [f \in DOMAIN store \ {TemplateFile(name)} |-> store[f]]]
    ELSE [ok |-> FALSE, store |-> store]

\* ord() of the characters of the sampled names
Ord(c) ==
    CASE c = "." -> 46 [] c = "/" -> 47 [] c = "B" -> 66
      [] c = "a" -> 97 [] c = "b" -> 98 [] c = "x" -> 120

\* a < b for two str
RECURSIVE StrLess(_, _)
StrLess(a, b) ==
    IF a = <<>> THEN b # <<>>
    ELSE IF b = <<>> THEN FALSE
    ELSE IF Head(a) = Head(b) THEN StrLess(Tail(a), Tail(b))
    ELSE Ord(Head(a)) < Ord(Head(b))

\* sorted(names)
RECURSIVE Sorted(_)
Sorted(names) ==
    IF names = {} THEN <<>>
    ELSE LET m == CHOOSE x \in names : \A y \in names \ {x} : StrLess(x, y)
         IN  <<m>> \o Sorted(names \ {m})

EndsWithJson(file) ==
    /\ Len(file) >= 5
    /\ SubSeq(file, Len(file) - 4, Len(file)) = <<".", "j", "s", "o", "n">>

\* ConfigManager.get_template_list: the entries of the template directory
\* itself that end in '.json', without the suffix, sorted
GetTemplateListCall(store) ==
    Sorted({SubSeq(f, 1, Len(f) - 5) :
                f \in {g \in DOMAIN store : ~HasSeparator(g) /\ EndsWithJson(g)}})

\* the sampled template names and configs
TemplateNames == {<<"a">>, <<"b">>, <<"a", "/", "b">>}

TextSamples == {<<"T", "E", "S", "T">>, <<>>, <<"\"", "a", "\\">>, <<"\\", "\\", "\"">>}

StoredConfigs ==
    {[DefaultConfig EXCEPT
        !.text_content = t, !.opacity = o, !.rotation = v[1], !.font_bold = v[2],
        !.shadow_offset_x = v[3], !.image_scale = v[4]] :
        t \in TextSamples, o \in {-10, 5, 100},
        v \in {<<-9000, FALSE, -3, 100>>, <<125, TRUE, 12, 1050>>, <<0, TRUE, 0, 5>>}}

\* template files written by something else than save_template: an older
\* version, another tool, the user's editor
ForeignFiles ==
    {[opacity |-> <<"0", ".", "9">>, foo |-> <<"1">>],
     [text_content |-> <<"\"", "h", "i", "\"">>, rotation |-> <<"9", "0">>,
      stroke_enabled |-> <<"t", "r", "u", "e">>],
     [opacity |-> <<"0", ".", "9">>, __doc__ |-> <<"\"", "x", "\"">>],
     [opacity |-> <<"0", ".", "9">>, __class__ |-> <<"\"", "x", "\"">>],
     [opacity |-> <<"0", ".">>]}

NoCall == [op |-> "none", name |-> <<>>, ok |-> FALSE, cfg |-> DefaultConfig,
           after_save |-> FALSE, saved_ok |-> FALSE, saved |-> DefaultConfig,
           extra |-> {}, present |-> FALSE, data |-> <<>>, names |-> <<>>]

StoreInit ==
    /\ config \in StoredConfigs
    /\ templates = <<>>
    /\ tcall = NoCall
    /\ xcall = NoExport
    /\ batch = NoBatch
    /\ window = NoWindow
    /\ history = NoHistory
    /\ image = NoImage
    /\ env = <<>>
    /\ before = [image |-> NoImage, config |-> config]
    /\ pc = "idle"
    /\ ret = NoReturn
    /\ files = <<>>

\* the user changes the settings: the current config becomes another one
ChangeConfig ==
    /\ config # DefaultConfig
    /\ config' = DefaultConfig
    /\ UNCHANGED <<templates, tcall, image, env, before, pc, ret, files, xcall, batch, window, history>>

\* save_template(name, config)
SaveNamed(name) ==
    LET r == SaveTemplateCall(templates, name, config)
    IN  /\ templates' = r.store
        /\ tcall' = [NoCall EXCEPT !.op = "save", !.name = name, !.ok = r.ok,
                                   !.cfg = config]
        /\ UNCHANGED <<config, image, env, before, pc, ret, files, xcall, batch, window>>

SaveTemplate == \E name \in TemplateNames : SaveNamed(name) /\ UNCHANGED history

\* load_template(name); the record keeps what the call just before it saved
\* when that call was save_template of the same name
LoadNamed(name) ==
    LET r == LoadTemplateCall(templates, name)
    IN  /\ tcall' = [NoCall EXCEPT !.op = "load", !.name = name, !.ok = r.ok,
                                   !.cfg = r.cfg, !.extra = r.extra,
                                   !.present = TemplateFile(name) \in DOMAIN templates,
                                   !.data = IF TemplateFile(name) \in DOMAIN templates
                                            THEN templates[TemplateFile(name)]
                                            ELSE <<>>,
                                   !.after_save = (tcall.op = "save" /\ tcall.name = name),
                                   !.saved_ok = (tcall.op = "save" /\ tcall.name = name
                                                    /\ tcall.ok),
                                   !.saved = IF tcall.op = "save" /\ tcall.name = name
                                             THEN tcall.cfg ELSE DefaultConfig]
        /\ UNCHANGED <<templates, config, image, env, before, pc, ret, files, xcall, batch,
                       window>>

LoadTemplate == \E name \in TemplateNames : LoadNamed(name) /\ UNCHANGED history

\* a file appears in the template directory without save_template
WriteForeignFile ==
    \E name \in {n \in TemplateNames : CanCreate(n)}, data \in ForeignFiles :
        /\ templates' = [f \in DOMAIN templates \cup {TemplateFile(name)} |->
                            IF f = TemplateFile(name) THEN data ELSE templates[f]]
        /\ tcall' = [NoCall EXCEPT !.op = "write", !.name = name]
        /\ UNCHANGED <<config, image, env, before, pc, ret, files, xcall, batch, window, history>>

\* delete_template(name)
DeleteNamed(name) ==
    LET r == DeleteTemplateCall(templates, name)
    IN  /\ templates' = r.store
        /\ tcall' = [NoCall EXCEPT !.op = "delete", !.name = name, !.ok = r.ok]
        /\ UNCHANGED <<config, image, env, before, pc, ret, files, xcall, batch, window>>

DeleteTemplate == \E name \in TemplateNames : DeleteNamed(name) /\ UNCHANGED history

StoreNext == WriteForeignFile \/ ChangeConfig \/ SaveTemplate \/ LoadTemplate \/ DeleteTemplate

StoreSpec == StoreInit /\ [][StoreNext]_vars

(***************************************************************************)
(* The template store under its four operations alone, with the names the *)
(* callers used: history.saved[n] is the config last saved under the name  *)
(* n with success and not deleted with success since; history.prior and   *)
(* history.store are that record and the directory as the last call found  *)
(* them.                                                                   *)
(***************************************************************************)
CallerNames ==
    {<<"a">>, <<"B">>, <<".", "/", "a">>, <<".", ".", "/", "x">>, <<"a", "/", "b">>}

CallerConfigs == {DefaultConfig, [DefaultConfig EXCEPT !.text_content = <<>>, !.opacity = 5]}

NotSaved == [saved |-> FALSE, cfg |-> DefaultConfig]

TemplateInit ==
    /\ config \in CallerConfigs
    /\ templates = <<>>
    /\ tcall = NoCall
    /\ history = [saved |-> [n \in CallerNames |-> NotSaved],
                  prior |-> [n \in CallerNames |-> NotSaved], store |-> templates]
    /\ xcall = NoExport
    /\ batch = NoBatch
    /\ window = NoWindow
    /\ image = NoImage
    /\ env = <<>>
    /\ before = [image |-> NoImage, config |-> config]
    /\ pc = "idle"
    /\ ret = NoReturn
    /\ files = <<>>

\* the caller goes on with another config
PickConfig ==
    /\ \E c \in CallerConfigs \ {config} : config' = c
    /\ UNCHANGED <<templates, tcall, image, env, before, pc, ret, files, xcall, batch,
                   window, history>>

SaveCall ==
    \E name \in CallerNames :
        /\ SaveNamed(name)
        /\ history' = [saved |-> IF SaveTemplateCall(templates, name, config).ok
                                 THEN [history.saved EXCEPT
                                        ![name] = [saved |-> TRUE, cfg |-> config]]
                                 ELSE history.saved,
                       prior |-> history.saved, store |-> templates]

LoadCall ==
    \E name \in CallerNames :
        /\ LoadNamed(name)
        /\ history' = [history EXCEPT !.prior = history.saved, !.store = templates]

DeleteCall ==
    \E name \in CallerNames :
        /\ DeleteNamed(name)
        /\ history' = [saved |-> IF DeleteTemplateCall(templates, name).ok
                                 THEN [history.saved EXCEPT ![name] = NotSaved]
                                 ELSE history.saved,
                       prior |-> history.saved, store |-> templates]

\* get_template_list()
GetTemplateList ==
    /\ tcall' = [NoCall EXCEPT !.op = "list", !.names = GetTemplateListCall(templates)]
    /\ history' = [history EXCEPT !.prior = history.saved, !.store = templates]
    /\ UNCHANGED <<templates, config, image, env, before, pc, ret, files, xcall, batch,
                   window>>

TemplateNext == PickConfig \/ SaveCall \/ LoadCall \/ DeleteCall \/ GetTemplateList

TemplateSpec == TemplateInit /\ [][TemplateNext]_vars

(***************************************************************************)
(* Batch export (MainWindow._export_images)                                *)
(*                                                                         *)
(* A listed image is [dir, stem, ext]: the directory of its file, and its  *)
(* file name as os.path.splitext splits it.  Every listed file holds the   *)
(* same picture, the variable image.                                       *)
(***************************************************************************)
\* str.lower() on the format tags of format_combo
Lower(fmt) ==
    IF fmt = <<"P", "N", "G">> THEN <<"p", "n", "g">>
    ELSE IF fmt = <<"J", "P", "E", "G">> THEN <<"j", "p", "e", "g">>
    ELSE fmt

\* lines 929-935: the output file name under the naming rule
NewFilename(rule, affix, item, file_format) ==
    CASE rule = "original" -> item.stem \o item.ext
      [] rule = "prefix" -> affix \o item.stem \o <<".">> \o Lower(file_format)
      [] OTHER -> item.stem \o affix \o <<".">> \o Lower(file_format)

\* line 938: os.path.join(output_dir, new_filename)
BatchOutputPath(b, item) ==
    [dir |-> b.output_dir, name |-> NewFilename(b.rule, b.affix, item, b.file_format)]

\* line 941: the output path is the path of the source file
CollidesWithSource(b, item) ==
    BatchOutputPath(b, item) = [dir |-> item.dir, name |-> item.stem \o item.ext]

MaxBatch == 2

ListedFiles ==
    {[dir |-> <<"o", "u", "t">>, stem |-> <<"a">>, ext |-> <<".", "p", "n", "g">>],
     [dir |-> <<"i", "n">>, stem |-> <<"a">>, ext |-> <<".", "p", "n", "g">>]}

ImageLists == UNION {[1 .. n -> ListedFiles] : n \in 1 .. MaxBatch}

\* the naming rule with the text of its input field
NamingRules ==
    {[rule |-> "original", affix |-> <<>>],
     [rule |-> "prefix", affix |-> <<>>],
     [rule |-> "prefix", affix |-> <<"w", "m", "_">>],
     [rule |-> "suffix", affix |-> <<"_", "w">>]}

\* a config that renders and one whose render raises, with the face each needs
BatchRenders ==
    {[config |-> DefaultConfig, box |-> <<0, 0, 2, 1>>],
     [config |-> [DefaultConfig EXCEPT !.rotation = 18000], box |-> <<0, 30, 220, 180>>]}

BatchInit ==
    /\ image = ImageNew("RGBA", CanvasW, CanvasH, Opaque)
    /\ \E r \in BatchRenders :
        /\ config = r.config
        /\ env = [font_loads |-> TRUE, default_loads |-> TRUE, system_fonts |-> <<>>,
                  box |-> r.box, wm_state |-> "missing", wm_img |-> WatermarkPicture]
    /\ before = [image |-> image, config |-> config]
    /\ window = NoWindow
    /\ history = NoHistory
    /\ pc = "idle"
    /\ ret = NoReturn
    /\ files = <<>>
    /\ templates = <<>>
    /\ tcall = <<>>
    /\ xcall = NoExport
    /\ \E imgs \in ImageLists, nr \in NamingRules,
          fmt \in {<<"P", "N", "G">>, <<"J", "P", "E", "G">>},
          dir \in {<<>>, <<"o", "u", "t">>} :
            batch = [state |-> "idle", images |-> imgs, rule |-> nr.rule,
                     affix |-> nr.affix, file_format |-> fmt, output_dir |-> dir,
                     indices |-> <<>>, i |-> 1, success_count |-> 0,
                     failed_count |-> 0, log |-> <<>>]

\* lines 902-917: _export_images(indices) up to the loop
StartBatch(indices) ==
    IF batch.output_dir = <<>>
    THEN batch' = [batch EXCEPT !.state = "refused", !.indices = indices]
    ELSE batch' = [batch EXCEPT !.state = "running", !.indices = indices, !.i = 1,
                                !.success_count = 0, !.failed_count = 0, !.log = <<>>]

\* export_all_images
ExportAllImages ==
    /\ batch.state = "idle"
    /\ batch.images # <<>>
    /\ StartBatch([k \in 1 .. Len(batch.images) |-> k])
    /\ UNCHANGED <<image, config, env, before, pc, ret, files, templates, tcall, xcall, window, history>>

\* export_selected_image, with current_image_index on a listed image
ExportSelectedImage ==
    /\ batch.state = "idle"
    /\ \E k \in 1 .. Len(batch.images) : StartBatch(<<k>>)
    /\ UNCHANGED <<image, config, env, before, pc, ret, files, templates, tcall, xcall, window, history>>

\* lines 919-951: one turn of the loop.  process_image is called outside any
\* try block, so what it raises leaves _export_images; export_image returns
\* False when save() fails (disk full, no permission).
ExportNext ==
    /\ batch.state = "running"
    /\ batch.i <= Len(batch.indices)
    /\ LET index == batch.indices[batch.i]
           item == batch.images[index]
           r == ProcessImageCall(image, config, env)
           path == BatchOutputPath(batch, item)
       IN  IF r.raised
           THEN /\ batch' = [batch EXCEPT !.state = "aborted"]
                /\ UNCHANGED files
           ELSE IF CollidesWithSource(batch, item)
           THEN /\ batch' = [batch EXCEPT
                        !.failed_count = @ + 1, !.i = @ + 1,
                        !.log = Append(@, [index |-> index, outcome |-> "collision"])]
                /\ UNCHANGED files
           ELSE \E saved \in BOOLEAN :
                /\ batch' = [batch EXCEPT
                        !.success_count = IF saved THEN @ + 1 ELSE @,
                        !.failed_count = IF saved THEN @ ELSE @ + 1,
                        !.i = @ + 1,
                        !.log = Append(@, [index |-> index,
                                           outcome |-> IF saved THEN "ok" ELSE "failed"])]
                /\ files' = IF saved
                            THEN [f \in DOMAIN files \cup {path} |->
                                    IF f = path
                                    THEN ExportPicture(r.out, batch.file_format, <<>>)
                                    ELSE files[f]]
                            ELSE files
    /\ UNCHANGED <<image, config, env, before, pc, ret, templates, tcall, xcall, window, history>>

\* lines 953-957: the loop is over, the counts are shown
ExportFinish ==
    /\ batch.state = "running"
    /\ batch.i > Len(batch.indices)
    /\ batch' = [batch EXCEPT !.state = "done"]
    /\ UNCHANGED <<image, config, env, before, pc, ret, files, templates, tcall, xcall, window, history>>

BatchNext == ExportAllImages \/ ExportSelectedImage \/ ExportNext \/ ExportFinish

BatchSpec == BatchInit /\ [][BatchNext]_vars

(***************************************************************************)
(* _parse_color on its own: the caller holds a config whose font_color is  *)
(* the argument                                                            *)
(***************************************************************************)
ColorPairs == {<<"F", "F">>, <<"0", "a">>, <<"+", "F">>, <<" ", "1">>, <<"g", "0">>}
ColorTails == {<<"0">>, <<"8", "0">>, <<"0", "0", "0">>}
ColorHeads == {<<>>, <<"#">>, <<"#", "#">>}

ColorStrings ==
    {h \o a \o b \o t : h \in ColorHeads, a \in ColorPairs, b \in ColorPairs, t \in ColorTails}
        \cup {<<>>, <<"#">>, <<"r", "e", "d">>, NoneValue}

ColorInit ==
    /\ \E c \in ColorStrings : config = [DefaultConfig EXCEPT !.font_color = c]
    /\ image = NoImage
    /\ env = <<>>
    /\ before = [image |-> image, config |-> config]
    /\ pc = "idle"
    /\ ret = NoReturn
    /\ files = <<>>
    /\ templates = <<>>
    /\ tcall = <<>>
    /\ xcall = NoExport
    /\ batch = NoBatch
    /\ window = NoWindow
    /\ history = NoHistory

\* the caller calls _parse_color(config.font_color); nothing is raised
ParseColorCall ==
    /\ pc = "idle"
    /\ ret' = [NoReturn EXCEPT !.out = ParseColor(config.font_color)]
    /\ pc' = "_parse_color"
    /\ UNCHANGED <<image, config, env, before, files, templates, tcall, xcall, batch, window, history>>

ColorNext == ParseColorCall

ColorSpec == ColorInit /\ [][ColorNext]_vars

(***************************************************************************)
(* Font resolution                                                         *)
(***************************************************************************)
\* the index in chinese_fonts of the candidate font holds when the loop of
\* lines 119-130 ends (0: none of them loaded), k the index of Head(cands)
RECURSIVE SystemFontChoice(_, _, _)
SystemFontChoice(cands, k, chosen) ==
    IF cands = <<>> THEN chosen
    ELSE LET c == Head(cands)
         IN  IF c.exists /\ c.loads
             THEN IF c.chinese THEN k ELSE SystemFontChoice(Tail(cands), k + 1, k)
             ELSE SystemFontChoice(Tail(cands), k + 1, chosen)

\* lines 74-139: the face the render goes on with, and which candidate it is
ResolveFace(cfg, e) ==
    LET kind == ResolveFont(cfg, e)
    IN  [kind |-> kind,
         index |-> IF kind = "system" THEN SystemFontChoice(e.system_fonts, 1, 0) ELSE 0]

MaxCandidates == 2

FontCandidates == [exists : BOOLEAN, loads : BOOLEAN, chinese : BOOLEAN]

CandidateLists ==
    UNION {[1 .. n -> FontCandidates] : n \in 0 .. MaxCandidates}

\* font_renders: whether the configured face holds the glyphs of the text
FontChainEnvs ==
    [font_loads : BOOLEAN, font_renders : BOOLEAN, default_loads : BOOLEAN,
     system_fonts : CandidateLists, box : {<<0, 0, 2, 1>>},
     wm_state : {"missing"}, wm_img : {WatermarkPicture}]

FontInit ==
    /\ \E f \in {<<>>, DefaultConfig.font_family} :
            config = [DefaultConfig EXCEPT !.font_family = f]
    /\ env \in FontChainEnvs
    /\ image = NoImage
    /\ before = [image |-> image, config |-> config]
    /\ pc = "idle"
    /\ ret = NoReturn
    /\ files = <<>>
    /\ templates = <<>>
    /\ tcall = <<>>
    /\ xcall = NoExport
    /\ batch = NoBatch
    /\ window = NoWindow
    /\ history = NoHistory

\* add_text_watermark reaches line 141 with its face chosen
ResolveFontCall ==
    /\ pc = "idle"
    /\ ret' = [NoReturn EXCEPT !.out = ResolveFace(config, env)]
    /\ pc' = "resolve_font"
    /\ UNCHANGED <<image, config, env, before, files, templates, tcall, xcall, batch, window, history>>

FontNext == ResolveFontCall

FontSpec == FontInit /\ [][FontNext]_vars

(***************************************************************************)
(* The main window: image list, setting widgets, templates                 *)
(*                                                                         *)
(* window.w holds what the setting widgets show, window.list_row the       *)
(* current row of the list widget, config the object current_config.  A    *)
(* signal is a direct call of its slot, so a handler runs with every slot  *)
(* its widget changes trigger.  A handler works on s = [cfg, w, sel]: the  *)
(* config object, the widgets, and whether current_image_index is valid.   *)
(***************************************************************************)
\* setRange of a spin box or slider
Clamp(v, lo, hi) == Max(lo, Min(hi, v))

\* the hundredths h for which int(h / 100 * 100) is h - 1 in binary floating
\* point, among 0 .. 100
ShortPercents == {29, 57, 58}

\* int(opacity * 100) (lines 408, 857)
PercentOf(opacity) == IF opacity \in ShortPercents THEN opacity - 1 ELSE opacity

\* the items of font_combo (lines 333-336): get_supported_fonts returns
\* dicts, which addItems accepts only when there is none, so a window that
\* was constructed has an empty combo box
FontItems == {}

\* lines 309-436: the widgets as init_ui leaves them
InitialWidgets(cfg) ==
    [text_radio |-> cfg.watermark_type = TextKind,
     text_input |-> cfg.text_content,
     font_combo |-> IF cfg.font_family \in FontItems THEN cfg.font_family ELSE <<>>,
     font_size_spin |-> Clamp(cfg.font_size, 8, 200),
     bold_checkbox |-> cfg.font_bold,
     italic_checkbox |-> cfg.font_italic,
     image_path_input |-> cfg.image_path,
     scale_spin |-> Clamp(cfg.image_scale, 10, 500),
     opacity_slider |-> Clamp(PercentOf(cfg.opacity), 0, 100),
     rotation_spin |-> Clamp(cfg.rotation, -36000, 36000),
     shadow_checkbox |-> cfg.shadow_enabled,
     stroke_checkbox |-> cfg.stroke_enabled]

\* MainWindow._update_config_from_ui
UpdateConfigFromUi(cfg, w) ==
    [cfg EXCEPT
        !.watermark_type = IF w.text_radio THEN TextKind ELSE ImageKind,
        !.text_content = w.text_input,
        !.font_family = w.font_combo,
        !.font_size = w.font_size_spin,
        !.font_bold = w.bold_checkbox,
        !.font_italic = w.italic_checkbox,
        !.image_path = w.image_path_input,
        !.image_scale = w.scale_spin,
        !.opacity = w.opacity_slider,
        !.rotation = w.rotation_spin,
        !.shadow_enabled = w.shadow_checkbox,
        !.stroke_enabled = w.stroke_checkbox]

\* MainWindow.update_watermark_preview: nothing without a selected image
UpdateWatermarkPreview(s) ==
    IF s.sel THEN [s EXCEPT !.cfg = UpdateConfigFromUi(s.cfg, s.w)] ELSE s

\* MainWindow.update_ui_state
UpdateUiState(s) ==
    UpdateWatermarkPreview(
        [s EXCEPT !.cfg.watermark_type = IF s.w.text_radio THEN TextKind ELSE ImageKind])

\* setChecked(True) on one radio button of the pair: both buttons toggle and
\* each emits toggled, connected to update_ui_state (lines 586-587)
SetRadio(s, is_text) ==
    IF s.w.text_radio = is_text THEN s
    ELSE UpdateUiState(UpdateUiState([s EXCEPT !.w.text_radio = is_text]))

\* a setter of a widget whose change signal is connected to
\* update_watermark_preview (lines 590-607; on_opacity_changed for the
\* slider): the signal is emitted when the value changes
SetWidget(s, field, value) ==
    IF s.w[field] = value THEN s
    ELSE UpdateWatermarkPreview([s EXCEPT !.w[field] = value])

\* lines 842-845: the combo box moves only to an item it holds
SetFontCombo(s) ==
    IF s.cfg.font_family \in FontItems
    THEN SetWidget(s, "font_combo", s.cfg.font_family)
    ELSE s

\* MainWindow._update_ui_from_config: each setter reads current_config as
\* it is when the setter is reached
UpdateUiFromConfig(s0) ==
    LET s1 == SetRadio(s0, s0.cfg.watermark_type = TextKind)
        s2 == SetWidget(s1, "text_input", s1.cfg.text_content)
        s3 == SetFontCombo(s2)
        s4 == SetWidget(s3, "font_size_spin", Clamp(s3.cfg.font_size, 8, 200))
        s5 == SetWidget(s4, "bold_checkbox", s4.cfg.font_bold)
        s6 == SetWidget(s5, "italic_checkbox", s5.cfg.font_italic)
        s7 == [s6 EXCEPT !.w.image_path_input = s6.cfg.image_path]
        s8 == SetWidget(s7, "scale_spin", Clamp(s7.cfg.image_scale, 10, 500))
        s9 == SetWidget(s8, "opacity_slider", Clamp(PercentOf(s8.cfg.opacity), 0, 100))
        s10 == SetWidget(s9, "rotation_spin", Clamp(s9.cfg.rotation, -36000, 36000))
        s11 == SetWidget(s10, "shadow_checkbox", s10.cfg.shadow_enabled)
        s12 == SetWidget(s11, "stroke_checkbox", s11.cfg.stroke_enabled)
    IN  UpdateUiState(s12)

\* current_image_index names a listed image
ValidIndex(images, index) == 0 <= index /\ index < Len(images)

\* a slot that sets current_image_index to whatever row it is given
SelectAnyRow(win, cfg, index) ==
    [win |-> [win EXCEPT !.current_image_index = index], cfg |-> cfg]

\* MainWindow.on_image_selected(index): [win, cfg]
OnImageSelectedCall(win, cfg, index) ==
    IF ValidIndex(win.images, index)
    THEN [win |-> [win EXCEPT !.current_image_index = index],
          cfg |-> UpdateWatermarkPreview([cfg |-> cfg, w |-> win.w, sel |-> TRUE]).cfg]
    ELSE [win |-> win, cfg |-> cfg]

\* image_list.setCurrentRow(row), and a click on a row: currentRowChanged is
\* emitted when the current row changes
SetCurrentRow(win, cfg, row) ==
    IF win.list_row = row THEN [win |-> win, cfg |-> cfg]
    ELSE OnImageSelectedCall([win EXCEPT !.list_row = row], cfg, row)

\* MainWindow._add_image(file_path): [win, cfg]
AddImageCall(win, cfg, file) ==
    IF file.loads
    THEN LET listed == [win EXCEPT !.images = Append(win.images, file.path)]
         IN  IF Len(listed.images) = 1
             THEN SetCurrentRow(listed, cfg, 0)
             ELSE [win |-> listed, cfg |-> cfg]
    ELSE [win |-> win, cfg |-> cfg]

\* MainWindow.clear_image_list with the answer of the dialog: clearing the
\* list widget reports the row -1 before images is emptied
ClearImageListCall(win, cfg, yes) ==
    IF yes
    THEN LET cleared == SetCurrentRow(win, cfg, -1)
         IN  [win |-> [cleared.win EXCEPT !.images = <<>>, !.current_image_index = -1],
              cfg |-> cleared.cfg]
    ELSE [win |-> win, cfg |-> cfg]

MaxImages == 2

ImportFiles ==
    {[path |-> <<"a">>, loads |-> TRUE], [path |-> <<"x">>, loads |-> FALSE]}

\* what the user typed; the combo box shows no font
TypedConfig == [DefaultConfig EXCEPT !.font_family = <<>>]

\* the templates of the directory: saved from the window after an image
\* was selected (a, b, x) and on a first run, before (B)
WindowTemplates ==
    (<<"a">> :> [TypedConfig EXCEPT !.rotation = 9000])
        @@ (<<"b">> :> [TypedConfig EXCEPT !.text_content = <<"x">>, !.font_bold = TRUE])
        @@ (<<"x">> :> [TypedConfig EXCEPT !.watermark_type = ImageKind,
                                          !.image_path = <<"a">>, !.image_scale = 150])
        @@ (<<"B">> :> [DefaultConfig EXCEPT !.opacity = 29])

NoOp == [name |-> "none", arg |-> -1, images |-> <<>>, index |-> -1,
         template |-> DefaultConfig]

WindowInit ==
    /\ config = DefaultConfig
    /\ templates = [f \in {TemplateFile(n) : n \in DOMAIN WindowTemplates} |->
                        JsonDump(WindowTemplates[
                            CHOOSE n \in DOMAIN WindowTemplates : TemplateFile(n) = f])]
    /\ window = [state |-> "open", images |-> <<>>, current_image_index |-> -1,
                 list_row |-> -1, w |-> InitialWidgets(config), op |-> NoOp]
    /\ history = NoHistory
    /\ tcall = NoCall
    /\ xcall = NoExport
    /\ batch = NoBatch
    /\ image = NoImage
    /\ env = <<>>
    /\ before = [image |-> NoImage, config |-> config]
    /\ pc = "idle"
    /\ ret = NoReturn
    /\ files = <<>>

\* what a handler found when it began
Began(name, arg) ==
    [NoOp EXCEPT !.name = name, !.arg = arg, !.images = window.images,
                 !.index = window.current_image_index]

\* a handler ends with the window and the config r holds
Ends(r, op) ==
    /\ window' = [r.win EXCEPT !.op = op]
    /\ config' = r.cfg
    /\ UNCHANGED <<image, env, before, pc, ret, files, templates, tcall, xcall, batch,
                   history>>

\* import_single_image, import_batch_images, import_folder: _add_image
AddImage ==
    \E file \in ImportFiles :
        /\ Len(window.images) < MaxImages
        /\ Ends(AddImageCall(window, config, file),
                Began(IF file.loads THEN "add" ELSE "add_failed", 0))

\* the user clicks a row of the list
ClickRow ==
    \E row \in 0 .. Len(window.images) - 1 :
        Ends(SetCurrentRow(window, config, row), Began("click", row))

\* the slot on_image_selected called with a row
OnImageSelected ==
    \E row \in -1 .. MaxImages :
        Ends(OnImageSelectedCall(window, config, row), Began("select", row))

\* clear_image_list
ClearImageList ==
    \E yes \in BOOLEAN :
        Ends(ClearImageListCall(window, config, yes),
             Began(IF yes THEN "clear" ELSE "clear_declined", 0))

\* the user toggles the bold checkbox
ToggleBold ==
    LET s == SetWidget([cfg |-> config, w |-> window.w,
                        sel |-> ValidIndex(window.images, window.current_image_index)],
                       "bold_checkbox", ~window.w.bold_checkbox)
    IN  Ends([win |-> [window EXCEPT !.w = s.w], cfg |-> s.cfg], Began("toggle_bold", 0))

\* MainWindow.load_template with the template the user picks in the dialog
LoadTemplateInWindow ==
    LET names == GetTemplateListCall(templates)
    IN  /\ names # <<>>
        /\ \E k \in 1 .. Len(names) :
            LET name == names[k]
                r == LoadTemplateCall(templates, name)
                s == UpdateWatermarkPreview(UpdateUiFromConfig(
                        [cfg |-> r.cfg, w |-> window.w,
                         sel |-> ValidIndex(window.images, window.current_image_index)]))
            IN  IF r.ok
                THEN Ends([win |-> [window EXCEPT !.w = s.w], cfg |-> s.cfg],
                          [Began("load_template", k) EXCEPT !.template = r.cfg])
                ELSE Ends([win |-> window, cfg |-> config], Began("load_failed", k))

WindowNext ==
    AddImage \/ ClickRow \/ OnImageSelected \/ ClearImageList \/ ToggleBold
        \/ LoadTemplateInWindow

WindowSpec == WindowInit /\ [][WindowNext]_vars

(***************************************************************************)
(* Claims                                                                  *)
(***************************************************************************)
\* the rectangle <<x0, y0, x1, y1>> the un-sheared primary glyph block covers
\* on the canvas in an upright render (rotation 0 or a full turn): the draw
\* origin plus the face's text box.  The italic image is drawn at (40, 20)
\* and pasted at (pos - 20, pos - 10); the rotation image is centred on the
\* text centre, which puts its draw origin back on pos.
GlyphBox(img, cfg, e) ==
    LET pos == TextAnchor(img, cfg, e)
        o == IF RenderPath(cfg, e) = "italic"
             THEN <<pos[1] - 20 + 40, pos[2] - 10 + 20>> ELSE pos
    IN  <<o[1] + e.box[1], o[2] + e.box[2], o[1] + e.box[3], o[2] + e.box[4]>>

\* the rectangle the image overlay is pasted on
OverlayBox(img, cfg, e) ==
    LET overlay == ImageOverlay(cfg, e)
        pos == ImageAnchor(img, cfg, overlay)
    IN  <<pos[1], pos[2], pos[1] + overlay.w, pos[2] + overlay.h>>

\* every draw of a text render, whatever surface it is made on
AllDraws(cfg, e) ==
    LET layer_draws == LayerDraws(cfg, e)
        temp_draws == TempDraws(cfg, e)
    IN  {layer_draws[k] : k \in 1 .. Len(layer_draws)}
            \cup {temp_draws[k] : k \in 1 .. Len(temp_draws)}

Clamped(cfg) == [cfg EXCEPT !.opacity = Max(0, Min(Hundredths, cfg.opacity))]

Within1(a, b) == Abs(a - b) <= 1

\* two bitmaps show the same pixels: same size, same colour and same alpha
\* at every point (a pixel of an RGB bitmap is opaque)
SamePixels(a, b) ==
    LET Alpha(im, p) == IF im.mode = "RGBA" THEN im.px[p][4] ELSE 255
    IN  /\ a.w = b.w
        /\ a.h = b.h
        /\ \A p \in Points(a.w, a.h) :
                /\ \A i \in 1 .. 3 : a.px[p][i] = b.px[p][i]
                /\ Alpha(a, p) = Alpha(b, p)

\* C1: with opacity = 0, whatever the kind and the effects, process_image
\* returns a bitmap pixel-identical to the bitmap it was given.
C1_ZeroOpacityIsIdentity ==
    (pc = "process_image" /\ before.config.opacity = 0)
        => (~ret.raised /\ SamePixels(ret.out, before.image))

\* C2: add_text_watermark never raises: the call completes and returns a bitmap.
C2_TextNeverRaises ==
    pc = "add_text_watermark" => ~ret.raised

\* C3: add_image_watermark never raises, and when the watermark file is
\* missing or corrupt or a scaled dimension is below 1 it returns a copy of
\* the source: the same pixels in another object.
C3_ImageFailureReturnsCopy ==
    pc = "add_image_watermark" =>
        /\ ~ret.raised
        /\ ImageWatermarkFails(before.config, env)
                => (ret.out = before.image /\ ~ret.same)

C3_Witness ==
    /\ pc = "add_image_watermark"
    /\ env.wm_state = "ok"
    /\ before.config.image_scale = 30
    /\ ImageWatermarkFails(before.config, env)
    /\ ret.out = before.image
    /\ ~ret.same

\* C4: in both paths the layer is merged by straight alpha-over: each colour
\* channel is layer*a + base*(1-a), the alpha is a_layer + a_base*(1-a_layer)
\* (to within one unit of rounding), so an opaque source pixel stays opaque.
C4_StraightAlphaOver ==
    /\ (pc = "add_image_watermark" /\ ~ImageWatermarkFails(before.config, env)) =>
        LET layer == PasteCopy(ImageNew("RGBA", before.image.w, before.image.h, Clear),
                               ImageOverlay(before.config, env),
                               OverlayBox(before.image, before.config, env)[1],
                               OverlayBox(before.image, before.config, env)[2])
        IN  \A p \in Points(before.image.w, before.image.h) :
                LET base == before.image.px[p]
                    top == layer.px[p]
                    out == ret.out.px[p]
                IN  /\ Within1(out[4], DIV255(top[4] * 255 + base[4] * (255 - top[4])))
                    /\ base[4] = 255 => out[4] = 255
                    /\ \A i \in 1 .. 3 : Within1(out[i], BLEND(top[4], base[i], top[i]))
    /\ (pc = "add_text_watermark" /\ ~ret.raised) =>
        LET layer == WatermarkLayer(before.image, before.config, env)
        IN  \A p \in Points(before.image.w, before.image.h) :
                LET base == before.image.px[p]
                    top == layer.px[p]
                    out == ret.out.px[p]
                IN  base[4] = 255 =>
                        \A i \in 1 .. 3 : Within1(out[i], BLEND(top[4], base[i], top[i]))

\* C5: a text render with rotation = 360 or -360 gives the same output as the
\* render with rotation = 0, made of the same draws (offsets and alphas).
C5_FullTurnIsUpright ==
    (pc = "add_text_watermark" /\ before.config.rotation \in {36000, -36000}) =>
        LET upright == [before.config EXCEPT !.rotation = 0]
        IN  /\ ret.out = AddTextWatermarkCall(before.image, upright, env).out
            /\ AllDraws(before.config, env) = AllDraws(upright, env)
            /\ GlyphBox(before.image, before.config, env)
                    = GlyphBox(before.image, upright, env)

C7_EdgesAlign ==
    LET c == before.config
        Aligned(b) ==
            /\ (c.position_x = 0 /\ c.position_y = 0)
                    => (Within1(b[1], 0) /\ Within1(b[2], 0))
            /\ (c.position_x = Hundredths /\ c.position_y = Hundredths)
                    => (Within1(b[3], before.image.w) /\ Within1(b[4], before.image.h))
    IN  /\ (pc = "add_text_watermark" /\ ~ret.raised /\ c.rotation % 36000 = 0)
                => Aligned(GlyphBox(before.image, c, env))
        /\ (pc = "add_image_watermark" /\ ~ImageWatermarkFails(c, env))
                => Aligned(OverlayBox(before.image, c, env))

\* C8: for every configuration process_image completes without error and
\* returns a bitmap with exactly the width and height of the source.
C8_SameSizeNoError ==
    pc = "process_image" =>
        /\ ~ret.raised
        /\ ret.out.w = before.image.w
        /\ ret.out.h = before.image.h

\* C9: opacity is clamped to [0, 1] before use: every alpha the renderers
\* draw with equals the one obtained with the clamped opacity and lies in
\* 0 .. 255.
C9_OpacityClamped ==
    /\ pc = "add_text_watermark" =>
        /\ \A d \in AllDraws(before.config, env) : d.ink[4] \in 0 .. 255
        /\ AllDraws(before.config, env) = AllDraws(Clamped(before.config), env)
    /\ (pc = "add_image_watermark" /\ ~ImageWatermarkFails(before.config, env)) =>
        ImageOverlay(before.config, env) = ImageOverlay(Clamped(before.config), env)

\* C10: the renderers and export_image leave the config and the source
\* bitmap they are given unchanged, on success and on failure.
C10_ArgumentsUnchanged ==
    pc # "idle" => (image = before.image /\ config = before.config)

C10_Witness ==
    /\ pc = "export_image"
    /\ before.config.watermark_type = ImageKind
    /\ ret.out.px # before.image.px
    /\ image = before.image

\* C11: for an image watermark of size w x h and a scale s > 0 that the
\* renderer accepts, the overlay before rotation and placement is exactly
\* (trunc(w*s), trunc(h*s)); a 100 x 100 watermark at s = 2.0 gives 200 x 200.
C11_OverlaySize ==
    /\ ScaledSize(100, 100, 200) = <<200, 200>>
    /\ (pc = "add_image_watermark" /\ ~ImageWatermarkFails(before.config, env)) =>
        LET o == ScaledOverlay(before.config, env)
            s == before.config.image_scale
        IN  /\ o.w * Hundredths <= env.wm_img.w * s
            /\ env.wm_img.w * s < (o.w + 1) * Hundredths
            /\ o.h * Hundredths <= env.wm_img.h * s
            /\ env.wm_img.h * s < (o.h + 1) * Hundredths

C11_Witness ==
    /\ pc = "add_image_watermark"
    /\ ~ImageWatermarkFails(before.config, env)
    /\ before.config.image_scale = 150
    /\ ScaledOverlay(before.config, env).w = 3
    /\ ScaledOverlay(before.config, env).h = 1

\* the bitmap export_image works on once the optional resize is done
ExportSized ==
    IF xcall.resize # <<>> THEN Resize(ret.out, xcall.resize[1], xcall.resize[2])
    ELSE ret.out

\* C12: export_image with format JPEG on an RGBA bitmap writes a 3-channel
\* picture in which a pixel of alpha 0 is pure white and a pixel of alpha 255
\* keeps its colour; a resize target is applied before the flattening.
C12_JpegFlattensOnWhite ==
    (pc = "export_image" /\ Upper(xcall.file_format) = <<"J", "P", "E", "G">>
        /\ ret.out.mode = "RGBA") =>
        LET f == files[OutputPath]
        IN  /\ f.format = "JPEG"
            /\ f.bm.mode = "RGB"
            /\ f.bm.w = ExportSized.w
            /\ f.bm.h = ExportSized.h
            /\ xcall.resize # <<>> => (f.bm.w = xcall.resize[1] /\ f.bm.h = xcall.resize[2])
            /\ \A p \in Points(f.bm.w, f.bm.h) :
                /\ Len(f.bm.px[p]) = 3
                /\ ExportSized.px[p][4] = 0 => f.bm.px[p] = <<255, 255, 255>>
                /\ ExportSized.px[p][4] = 255 =>
                        f.bm.px[p] = <<ExportSized.px[p][1], ExportSized.px[p][2],
                                       ExportSized.px[p][3]>>

C12_Witness ==
    /\ pc = "export_image"
    /\ xcall.file_format = <<"j", "p", "e", "g">>
    /\ xcall.resize = <<2, 2>>
    /\ ret.out.mode = "RGBA"
    /\ \E p \in Points(2, 2) :
            ExportSized.px[p][4] = 0 /\ ExportSized.px[p] # <<255, 255, 255, 0>>
    /\ \E p \in Points(2, 2) : ExportSized.px[p][4] = 255
    /\ files[OutputPath].bm.mode = "RGB"

\* the alpha of a pixel of a bitmap; an RGB bitmap has none and shows opaque
AlphaAt(im, p) == IF im.mode = "RGBA" THEN im.px[p][4] ELSE 255

\* the points of the source the watermark puts nothing on
UncoveredPoints(img, cfg, e) ==
    IF cfg.watermark_type = TextKind
    THEN LET layer == WatermarkLayer(img, cfg, e)
         IN  {p \in Points(img.w, img.h) : layer.px[p][4] = 0}
    ELSE IF cfg.watermark_type = ImageKind /\ cfg.image_path # <<>>
                /\ ~ImageWatermarkFails(cfg, e)
    THEN LET b == OverlayBox(img, cfg, e)
         IN  {p \in Points(img.w, img.h) :
                ~(b[1] <= p[1] /\ p[1] < b[3] /\ b[2] <= p[2] /\ p[2] < b[4])}
    ELSE Points(img.w, img.h)

\* C13: for text and image watermarks process_image returns an RGBA bitmap
\* in which a source pixel the watermark does not cover keeps its source
\* alpha, and a PNG export of that result preserves that alpha; only a JPEG
\* export flattens to 3 channels.
C13_RgbaUntilLossyExport ==
    /\ (pc = "process_image" /\ ~ret.raised) =>
        /\ ret.out.mode = "RGBA"
        /\ \A p \in UncoveredPoints(before.image, before.config, env) :
                AlphaAt(ret.out, p) = before.image.px[p][4]
    /\ (pc = "export_image" /\ Upper(xcall.file_format) = <<"P", "N", "G">>
            /\ xcall.resize = <<>>) =>
        /\ files[OutputPath].bm.mode = "RGBA"
        /\ \A p \in UncoveredPoints(before.image, before.config, env) :
                AlphaAt(files[OutputPath].bm, p) = before.image.px[p][4]

\* C14: export_image called with a format tag other than PNG or JPEG
\* (case-insensitively) rejects the call: it returns False and writes no file.
C14_UnsupportedFormatRejected ==
    (pc \in {"export_image", "export_failed"}
        /\ Upper(xcall.file_format) \notin {<<"P", "N", "G">>, <<"J", "P", "E", "G">>}) =>
        /\ pc = "export_failed"
        /\ OutputPath \notin DOMAIN files

\* how many entries of the batch log have one of the outcomes
RECURSIVE CountOutcomes(_, _)
CountOutcomes(log, outcomes) ==
    IF log = <<>> THEN 0
    ELSE (IF Head(log).outcome \in outcomes THEN 1 ELSE 0)
            + CountOutcomes(Tail(log), outcomes)

IsHexColor(v) ==
    /\ IsStr(v)
    /\ Len(v) = 7
    /\ v[1] = "#"
    /\ \A i \in 2 .. 7 : IsHex(v[i])

\* C16: _parse_color returns (R, G, B) for a string that is exactly '#' and
\* 6 hexadecimal digits and black for every other input; it never raises.
C16_ParseColor ==
    pc = "_parse_color" =>
        LET c == config.font_color
        IN  /\ ~ret.raised
            /\ IsHexColor(c) =>
                    ret.out = <<16 * HexVal(c[2]) + HexVal(c[3]),
                                16 * HexVal(c[4]) + HexVal(c[5]),
                                16 * HexVal(c[6]) + HexVal(c[7])>>
            /\ ~IsHexColor(c) => ret.out = <<0, 0, 0>>

\* C17: for any JSON object, load_template returns a config in which every
\* known field present in the object has the object's value, every known
\* field missing from it has the schema default, and keys that are not
\* WatermarkConfig fields are ignored and add no attribute.
C17_LoadDefaultsAndIgnores ==
    (tcall.op = "load" /\ tcall.present
        /\ \A k \in DOMAIN tcall.data : JsonParse(tcall.data[k]).ok) =>
        /\ tcall.ok
        /\ \A k \in DOMAIN DefaultConfig :
                tcall.cfg[k] = IF k \in DOMAIN tcall.data
                               THEN FieldValue(k, JsonParse(tcall.data[k]))
                               ELSE DefaultConfig[k]
        /\ tcall.extra = {}
        /\ DefaultConfig.opacity = 50
        /\ DefaultConfig.position_x = 50
        /\ DefaultConfig.position_y = 50

\* stroke, shadow, bold, italic and rotation are all off
PlainText(cfg) ==
    /\ cfg.watermark_type = TextKind
    /\ ~cfg.stroke_enabled
    /\ ~cfg.shadow_enabled
    /\ ~cfg.font_bold
    /\ ~cfg.font_italic
    /\ cfg.rotation = 0

\* point p lies in [pos_x, pos_x + textWidth) x [pos_y, pos_y + textHeight)
InTextRectangle(img, cfg, e, p) ==
    LET pos == TextAnchor(img, cfg, e)
        size == TextSize(cfg, e)
    IN  /\ pos[1] <= p[1] /\ p[1] < pos[1] + size[1]
        /\ pos[2] <= p[2] /\ p[2] < pos[2] + size[2]

\* C18: for a text watermark with no stroke, shadow, bold, italic or
\* rotation, every output pixel outside the rectangle
\* [pos_x, pos_x + textWidth) x [pos_y, pos_y + textHeight) given by the
\* anchor formula equals the input pixel.
C18_ChangeOnlyInTextRectangle ==
    (pc = "add_text_watermark" /\ ~ret.raised /\ PlainText(before.config)) =>
        \A p \in Points(before.image.w, before.image.h) :
            ~InTextRectangle(before.image, before.config, env, p) =>
                /\ \A i \in 1 .. 3 : ret.out.px[p][i] = before.image.px[p][i]
                /\ AlphaAt(ret.out, p) = before.image.px[p][4]

\* round(n / d) as Python rounds: to the nearest integer, a tie to the even one
RoundHalfEven(n, d) ==
    LET q == n \div d
        r == n % d
    IN  IF 2 * r < d THEN q
        ELSE IF 2 * r > d THEN q + 1
        ELSE IF q % 2 = 0 THEN q ELSE q + 1

\* C19: the alpha of the primary (non-italic) glyph draw is
\* round(255 * opacity) for every opacity in [0, 1].
C19_GlyphAlphaRounded ==
    (pc = "add_text_watermark" /\ ~ret.raised /\ ~before.config.font_italic
        /\ before.config.opacity \in 0 .. Hundredths) =>
        \A d \in AllDraws(before.config, env) :
            d.role = "main" =>
                d.ink[4] = RoundHalfEven(255 * before.config.opacity, Hundredths)

\* the offsets of the stroke draws of a render
StrokeOffsets(cfg, e) ==
    {<<d.dx, d.dy>> : d \in {x \in AllDraws(cfg, e) : x.role = "stroke"}}

\* {(dx, dy) : |dx| <= w, |dy| <= w, |dx| = w or |dy| = w}
PerimeterOf(w) ==
    {o \in (-w .. w) \X (-w .. w) : Abs(o[1]) = w \/ Abs(o[2]) = w}

\* C20: with stroke enabled at width w, the offsets at which the stroke is
\* drawn into the layer that is composited are exactly the perimeter of the
\* square of half-width w, never the filled square, in every render path.
C20_StrokeIsPerimeter ==
    (pc = "add_text_watermark" /\ ~ret.raised /\ before.config.stroke_enabled) =>
        StrokeOffsets(before.config, env) = PerimeterOf(before.config.stroke_width)

C20_Witness ==
    /\ pc = "add_text_watermark"
    /\ ~ret.raised
    /\ before.config.stroke_enabled
    /\ before.config.stroke_width = 2
    /\ before.config.rotation = 0
    /\ before.config.font_italic
    /\ Cardinality(StrokeOffsets(before.config, env)) = 16
    /\ <<1, 1>> \notin StrokeOffsets(before.config, env)
    /\ env.box = <<0, 0, 2, 1>>
    /\ \E p \in Points(ret.out.w, ret.out.h) : ret.out.px[p] = <<255, 255, 255>>

\* the draws of a text render in the order they reach the composited layer:
\* those made on the layer itself, then those of the temporary image, which
\* is pasted over them
OrderedDraws(cfg, e) == LayerDraws(cfg, e) \o TempDraws(cfg, e)

RoleRank(role) ==
    CASE role = "stroke" -> 1 [] role = "shadow" -> 2 [] role = "bold" -> 3
      [] role = "main" -> 4

\* C21: in every render path the draws of the composited layer come in the
\* order stroke, shadow, bold simulation, primary glyph, and the primary
\* glyph is the last draw.
C21_DrawOrder ==
    (pc = "add_text_watermark" /\ ~ret.raised) =>
        LET draws == OrderedDraws(before.config, env)
        IN  /\ draws # <<>>
            /\ draws[Len(draws)].role = "main"
            /\ \A j \in 1 .. Len(draws) - 1 :
                    /\ draws[j].role # "main"
                    /\ RoleRank(draws[j].role) <= RoleRank(draws[j + 1].role)

C21_Witness ==
    /\ pc = "add_text_watermark"
    /\ ~ret.raised
    /\ RenderPath(before.config, env) = "rotated_italic"
    /\ before.config.stroke_enabled
    /\ before.config.shadow_enabled
    /\ before.config.font_bold
    /\ Len(OrderedDraws(before.config, env)) = 8 + 1 + 8 + 1
    /\ OrderedDraws(before.config, env)[9].role = "shadow"

\* C22: with rotation # 0 and a face, for every text size, canvas size,
\* position and angle, the rotated temporary layer is pasted, and pasted so
\* that its centre lands on the text centre (pos_x + textWidth/2,
\* pos_y + textHeight/2) of the anchor formula, within 1 px (compared in half
\* pixels).
C22_RotatedCentre ==
    (pc = "add_text_watermark" /\ before.config.rotation # 0
        /\ ResolveFont(before.config, env) # "none") =>
        LET r == RenderPlan(before.image, before.config, env)
            pos == TextAnchor(before.image, before.config, env)
            size == TextSize(before.config, env)
            paste == RotatedPaste(r)
        IN  /\ ~ret.raised
            /\ Abs((2 * paste[1] + r.side) - (2 * pos[1] + size[1])) <= 2
            /\ Abs((2 * paste[2] + r.side) - (2 * pos[2] + size[2])) <= 2

\* C23: for every rotation other than 0 the side of the square temporary
\* image is at least textWidth*|cos| + textHeight*|sin| + margin, hence
\* positive and at least as large as the rotated text, also for the angles
\* between 90 and 270 degrees.
C23_TempSideCoversText ==
    (pc = "add_text_watermark" /\ before.config.rotation # 0
        /\ ResolveFont(before.config, env) # "none") =>
        LET size == TextSize(before.config, env)
            side == TempSide(before.config, env)
            rotated_width == size[1] * Abs(CosOf(before.config.rotation))
                                + size[2] * Abs(SinOf(before.config.rotation))
            rotated_height == size[2] * Abs(CosOf(before.config.rotation))
                                + size[1] * Abs(SinOf(before.config.rotation))
        IN  /\ side >= rotated_width + RotationMargin
            /\ side > 0
            /\ side >= rotated_width
            /\ side >= rotated_height

\* where the origin of the un-sheared italic text lands on the canvas, before
\* any rotation
ItalicOriginOnCanvas(r) ==
    LET it == ItalicLayout(r)
    IN  IF r.path = "italic"
        THEN <<it.paste[1] + it.origin[1], it.paste[2] + it.origin[2]>>
        ELSE <<RotatedPaste(r)[1] + it.paste[1] + it.origin[1],
               RotatedPaste(r)[2] + it.paste[2] + it.origin[2]>>

\* C24: whenever italic is simulated, rotated or not, the image the text is
\* drawn on extends at least 40 px to the left and at least 20 px above and
\* below the glyph bounding box, and the paste is corrected by the padding so
\* that the un-sheared glyph origin lands on the anchor (pos_x, pos_y).
C24_ItalicPadding ==
    (pc = "add_text_watermark" /\ ~ret.raised
        /\ RenderPath(before.config, env) \in {"italic", "rotated_italic"}) =>
        LET r == RenderPlan(before.image, before.config, env)
            it == ItalicLayout(r)
        IN  /\ it.origin[1] + r.box[1] >= 40
            /\ it.origin[2] + r.box[2] >= 20
            /\ it.size[2] - (it.origin[2] + r.box[4]) >= 20
            /\ ItalicOriginOnCanvas(r) = r.pos

\* the candidates of the list that exist, load and hold the code points
UsableCandidates(e) ==
    {k \in 1 .. Len(e.system_fonts) :
        e.system_fonts[k].exists /\ e.system_fonts[k].loads /\ e.system_fonts[k].chinese}

\* the first face of [configured path, system candidates in order, built-in]
\* that loads and can render the text
FirstOfChain(cfg, e) ==
    IF cfg.font_family # <<>> /\ e.font_loads /\ e.font_renders
    THEN [kind |-> "custom", index |-> 0]
    ELSE IF UsableCandidates(e) # {}
         THEN [kind |-> "system",
               index |-> CHOOSE k \in UsableCandidates(e) :
                            \A j \in UsableCandidates(e) : k <= j]
         ELSE [kind |-> "default", index |-> 0]

\* C25: the face used is the first of the chain [configured font path, the
\* system font paths in list order, the built-in font] that loads and can
\* render the required code points; the built-in font is used only when the
\* configured path and every system candidate failed; some face is always
\* selected.
C25_FontChain ==
    pc = "resolve_font" =>
        /\ ret.out = FirstOfChain(config, env)
        /\ ret.out.kind # "none"
        /\ ret.out.kind = "default" =>
                /\ ~(config.font_family # <<>> /\ env.font_loads)
                /\ UsableCandidates(env) = {}

\* the names saved and not deleted since
SavedNames == {n \in CallerNames : history.saved[n].saved}

\* C30: after any sequence of save_template, delete_template, load_template
\* and get_template_list calls, load_template(n) returns the config last
\* saved under n and not deleted since, None when there is none;
\* delete_template(n) returns True exactly when n existed and removes only n;
\* get_template_list returns exactly the existing names, without suffix, in
\* ascending order; load_template and get_template_list change nothing.
C30_TemplateStore ==
    /\ tcall.op = "load" =>
            /\ tcall.ok = history.saved[tcall.name].saved
            /\ tcall.ok => tcall.cfg = history.saved[tcall.name].cfg
            /\ templates = history.store
    /\ tcall.op = "delete" =>
            /\ tcall.ok = history.prior[tcall.name].saved
            /\ \A m \in CallerNames \ {tcall.name} :
                    LoadTemplateCall(templates, m) = LoadTemplateCall(history.store, m)
    /\ tcall.op = "list" =>
            /\ tcall.names = Sorted(SavedNames)
            /\ templates = history.store

\* C27: whenever font_italic is set and a face is loaded, the primary glyph
\* of the composited layer is the sheared one, whatever the stroke, shadow,
\* bold and rotation settings: it is drawn on the image that is sheared and
\* not on the layer itself.
C27_ItalicKept ==
    (pc = "add_text_watermark" /\ ~ret.raised /\ before.config.font_italic
        /\ ResolveFont(before.config, env) # "none") =>
        LET r == RenderPlan(before.image, before.config, env)
        IN  /\ r.path \in {"italic", "rotated_italic"}
            /\ \E k \in 1 .. Len(r.temp_draws) : r.temp_draws[k].role = "main"
            /\ \A k \in 1 .. Len(r.layer_draws) : r.layer_draws[k].role # "main"

\* the path of the file a listed image was imported from
SourcePath(item) == [dir |-> item.dir, name |-> item.stem \o item.ext]

\* C28: an export, single or batch, never writes an output file at the path
\* of an imported source image: an image whose output path is its source
\* path is skipped and counted failed, and no source file of the list is
\* overwritten by the export of another image of the list.
C28_NoSourceOverwritten ==
    batch.state \in {"running", "done", "aborted"} =>
        /\ \A k \in 1 .. Len(batch.images) :
                SourcePath(batch.images[k]) \notin DOMAIN files
        /\ \A j \in 1 .. Len(batch.log) :
                CollidesWithSource(batch, batch.images[batch.log[j].index])
                    => batch.log[j].outcome = "collision"

\* C26: after MainWindow.load_template has loaded the template T while an
\* image is selected, current_config equals T in every field: the slots
\* that run while the widgets are being set do not write stale widget
\* values over fields of T.
C26_LoadedTemplateKept ==
    (window.op.name = "load_template"
        /\ ValidIndex(window.op.images, window.op.index)) =>
        config = window.op.template

\* C29: current_image_index is -1 or the index of a listed image; it is -1
\* when the list is empty and after clear_image_list, 0 when the first image
\* is added to an empty list; a failed load changes neither images nor the
\* index; a selection with an out-of-range row is ignored.
C29_IndexValid ==
    /\ window.current_image_index = -1
            \/ ValidIndex(window.images, window.current_image_index)
    /\ window.images = <<>> => window.current_image_index = -1
    /\ window.op.name = "clear" =>
            window.images = <<>> /\ window.current_image_index = -1
    /\ (window.op.name = "add" /\ window.op.images = <<>>) =>
            Len(window.images) = 1 /\ window.current_image_index = 0
    /\ window.op.name = "add_failed" =>
            /\ window.images = window.op.images
            /\ window.current_image_index = window.op.index
    /\ (window.op.name = "select" /\ ~ValidIndex(window.op.images, window.op.arg)) =>
            /\ window.images = window.op.images
            /\ window.current_image_index = window.op.index

C29_Witness ==
    /\ window.op.name = "select"
    /\ window.op.arg = MaxImages
    /\ Len(window.images) = MaxImages
    /\ window.current_image_index = 1

====
